---- MODULE Spec2Model ----
(***************************************************************************)
(* A model of sucredb: the causal data types of version_vector.rs, the     *)
(* Database dispatch layer of database.rs, and the vnode replication       *)
(* protocol that the Database drives.                                      *)
(***************************************************************************)
EXTENDS Integers, Sequences, FiniteSets, TLC

VARIABLES
    dx, dy, dz,     \* DottedCausalContainer operands of the algebra checks
    dres,           \* the last container operation applied and its results
    ba, bb,         \* BitmappedVersionVector operands of the clock checks
    bres,           \* the last clock operation applied and its results
    cmd,            \* the client command handed to handler_cmd and its calls
    locks,          \* one Database: its threads, the vnodes lock and mutexes
    pool,           \* one WorkerManager: senders, queues, workers and ticker
    chan,           \* one SignaledChan: its flag and the results of its polls
    ring,           \* DHT: the nodes owning the partition and those claiming it
    dhtq,           \* per node: 1 while a WorkerMsg::DHTChange is queued
    status,         \* per node: VNodeStatus of the partition's vnode
    clocks,         \* per node: the vnode's BitmappedVersionVector
    storage,        \* per node: key -> stored (stripped) container
    log,            \* per node: the vnode's log of the dots it generated
    pending,        \* per node: cookie -> coordinator state of a client request
    migrations,     \* per node: cookie -> handoff state
    syncs,          \* per node: cookie -> synchronization state
    cookie_seq,     \* per node: the counter cookies are taken from
    net,            \* fabric: per ordered pair of nodes, the messages in flight
    reqs,           \* history: the client requests, by token, and their responses
    hist            \* history: snapshots taken at a claim and at a disk loss

dccVars == <<dx, dy, dz, dres>>
bvvVars == <<ba, bb, bres>>
algVars == <<dx, dy, dz, dres, ba, bb, bres, cmd, locks, pool, chan>>
nodeVars == <<status, clocks, storage, log, pending, migrations, syncs,
              cookie_seq>>
dbVars == <<ring, dhtq, status, clocks, storage, log, pending, migrations,
            syncs, cookie_seq, net, reqs, hist>>
vars == <<dx, dy, dz, dres, ba, bb, bres, cmd, locks, pool, chan, ring, dhtq,
          status,
          clocks, storage, log, pending, migrations, syncs, cookie_seq, net,
          reqs, hist>>

(***************************************************************************)
(* Bounds of the model.                                                    *)
(***************************************************************************)
\* the largest version number an operand of the algebra checks carries
MaxVersion == 2
\* actor ids (Id = u64 in the source)
Ids == {1, 2}
\* the actors whose dots the operands of the algebra checks carry; merge and
\* discard treat every actor on its own, the second actor appears in the
\* version vectors
DotIds == {1}
\* sibling values
Values == {"a", "b"}

\* the nodes of the cluster; a node's id is its actor id
Nodes == {1, 2}
\* the keys clients use, all of one partition
Keys == {1, 2}
\* the number of client requests issued
MaxOps == 3
\* the number of client requests issued to a cluster of two Ready nodes
MaxPairOps == 4
\* the number of requests the clients keep without a response
MaxOutstanding == 1
\* the number of Ticks after which a pending state expires
ReqTicks == 1
\* the number of Ticks at which a deadline passes or a handoff is retried
MaxTicks == 1
\* the number of handoffs and synchronizations started
MaxStarts == 2

(***************************************************************************)
(* Helpers.                                                                *)
(***************************************************************************)
Max(a, b) == IF a >= b THEN a ELSE b

Restrict(f, S) == [k \in S |-> f[k]]

Put(f, k, v) == [x \in DOMAIN f \cup {k} |-> IF x = k THEN v ELSE f[x]]

Remove(f, k) == Restrict(f, DOMAIN f \ {k})

MinOf(S) == CHOOSE x \in S : \A y \in S : x <= y

RECURSIVE Pow2(_)
Pow2(n) == IF n = 0 THEN 1 ELSE 2 * Pow2(n - 1)

\* ramp::Int bit operations on the bitmap, kept as a natural number
Bit(bitmap, i) == (bitmap \div Pow2(i)) % 2 = 1

SetBit(bitmap, i) == IF Bit(bitmap, i) THEN bitmap ELSE bitmap + Pow2(i)

Shr(bitmap, k) == bitmap \div Pow2(k)

RECURSIVE BitOr(_, _)
BitOr(a, b) ==
    IF a = 0 THEN b
    ELSE IF b = 0 THEN a
    ELSE Max(a % 2, b % 2) + 2 * BitOr(a \div 2, b \div 2)

(***************************************************************************)
(* BitmappedVersion: [base, bitmap].                                       *)
(***************************************************************************)
BitmappedVersionNew(base, bitmap) == [base |-> base, bitmap |-> bitmap]

\* the loop of norm: the number of set bits before the first clear one
RECURSIVE TrailingOnes(_)
TrailingOnes(bitmap) ==
    IF bitmap % 2 = 1 THEN 1 + TrailingOnes(bitmap \div 2) ELSE 0

BvNorm(bv) ==
    LET trailing_ones == TrailingOnes(bv.bitmap)
    IN  IF trailing_ones > 0
        THEN [base |-> bv.base + trailing_ones,
              bitmap |-> Shr(bv.bitmap, trailing_ones)]
        ELSE bv

\* the width of the bit index of add (u32 in the code, scaled down)
IndexBits == 2
IndexMod == 2 ^ IndexBits

\* a plausible slip of join: the larger base of other is not taken over
BvJoinKeepsBase(self, other) ==
    IF self.base >= other.base
    THEN BvNorm([base |-> self.base,
                 bitmap |-> BitOr(self.bitmap,
                                  Shr(other.bitmap, self.base - other.base))])
    ELSE BvNorm([base |-> self.base,
                 bitmap |-> BitOr(Shr(self.bitmap, other.base - self.base),
                                  other.bitmap)])

BvJoin(self, other) ==
    IF self.base >= other.base
    THEN BvNorm([base |-> self.base,
                 bitmap |-> BitOr(self.bitmap,
                                  Shr(other.bitmap, self.base - other.base))])
    ELSE BvNorm([base |-> other.base,
                 bitmap |-> BitOr(Shr(self.bitmap, other.base - self.base),
                                  other.bitmap)])

\* a plausible slip of add: the bit is set and norm is not called
BvAddNoNorm(bv, version) ==
    IF version > bv.base
    THEN [bv EXCEPT !.bitmap = SetBit(@, version - bv.base - 1)]
    ELSE bv

\* the bit index is (version - base - 1) as u32: the difference cut to the
\* width of the index
BvAdd(bv, version) ==
    IF version > bv.base
    THEN BvNorm([bv EXCEPT
                    !.bitmap = SetBit(@, (version - bv.base - 1) % IndexMod)])
    ELSE bv

(***************************************************************************)
(* BitmappedVersionVector: a map Id -> BitmappedVersion, as a function on  *)
(* the ids that have an entry.                                             *)
(***************************************************************************)
BvvNew == << >>

\* a plausible slip of add: the entry is inserted anew instead of looked up
BvvAddInserts(bvv, id, version) ==
    [i \in DOMAIN bvv \cup {id} |->
        IF i = id THEN BvAdd(BitmappedVersionNew(0, 0), version) ELSE bvv[i]]

BvvAdd(bvv, id, version) ==
    LET cur == IF id \in DOMAIN bvv THEN bvv[id] ELSE BitmappedVersionNew(0, 0)
    IN  [i \in DOMAIN bvv \cup {id} |->
            IF i = id THEN BvAdd(cur, version) ELSE bvv[i]]

\* get(id).map(|b| b.base).unwrap_or(0)
BvvBase(bvv, id) == IF id \in DOMAIN bvv THEN bvv[id].base ELSE 0

BvvJoin(self, other) ==
    [i \in DOMAIN self |->
        IF i \in DOMAIN other THEN BvJoin(self[i], other[i]) ELSE self[i]]

\* a plausible slip of merge: an occupied entry is left as it is
BvvMergeVacantOnly(self, other) ==
    [i \in DOMAIN self \cup DOMAIN other |->
        IF i \notin DOMAIN self THEN other[i] ELSE self[i]]

BvvMerge(self, other) ==
    [i \in DOMAIN self \cup DOMAIN other |->
        IF i \notin DOMAIN self THEN other[i]
        ELSE IF i \in DOMAIN other THEN BvJoin(self[i], other[i])
        ELSE self[i]]

\* a plausible slip of event: the base is read before it is incremented
BvvEventVersionStale(bvv, id) == IF id \in DOMAIN bvv THEN bvv[id].base ELSE 0

\* event returns the version; the vector after it is BvvEvent
BvvEventVersion(bvv, id) == IF id \in DOMAIN bvv THEN bvv[id].base + 1 ELSE 1

\* a plausible slip of event: the version is returned and the vector is left
\* as it was
BvvEventKeepsBase(bvv, id) == bvv

BvvEvent(bvv, id) ==
    [i \in DOMAIN bvv \cup {id} |->
        IF i # id THEN bvv[i]
        ELSE IF id \in DOMAIN bvv
             THEN [bvv[id] EXCEPT !.base = @ + 1]
             ELSE BitmappedVersionNew(1, 0)]

BvvReset(bvv) == [i \in DOMAIN bvv |-> [bvv[i] EXCEPT !.bitmap = 0]]

BvvCloneBase(bvv) == [i \in DOMAIN bvv |-> BitmappedVersionNew(bvv[i].base, 0)]

(***************************************************************************)
(* VersionVector: a map Id -> Version.                                     *)
(***************************************************************************)
VvNew == << >>

\* get(id).unwrap_or(0)
VvGet(vv, id) == IF id \in DOMAIN vv THEN vv[id] ELSE 0

VvAdd(vv, id, version) ==
    IF id \notin DOMAIN vv
    THEN [i \in DOMAIN vv \cup {id} |-> IF i = id THEN version ELSE vv[i]]
    ELSE IF vv[id] < version THEN [vv EXCEPT ![id] = version] ELSE vv

\* a plausible slip of merge: an entry of other is inserted over a larger
\* entry
VvMergeOverwrites(self, other) ==
    [i \in DOMAIN self \cup DOMAIN other |->
        IF i \notin DOMAIN other THEN self[i] ELSE other[i]]

\* add of every entry of other
VvMerge(self, other) ==
    [i \in DOMAIN self \cup DOMAIN other |->
        IF i \notin DOMAIN other THEN self[i]
        ELSE IF i \notin DOMAIN self THEN other[i]
        ELSE Max(self[i], other[i])]

(***************************************************************************)
(* Dots: a map (Id, Version) -> value.                                     *)
(***************************************************************************)
DotsNew == << >>

\* a plausible slip of merge: the filter reads the receiver's vector alone
DotsMergeOwnVv(self, other, vv1, vv2) ==
    LET drained == [d \in DOMAIN self \cup DOMAIN other |->
                        IF d \in DOMAIN self THEN self[d] ELSE other[d]]
        dups == DOMAIN self \cap DOMAIN other
        kept == {d \in DOMAIN drained : d \in dups \/ d[2] = VvGet(vv1, d[1])}
    IN  Restrict(drained, kept)

\* a plausible slip of merge: duplicates are not remembered
DotsMergeNoDups(self, other, vv1, vv2) ==
    LET drained == [d \in DOMAIN self \cup DOMAIN other |->
                        IF d \in DOMAIN self THEN self[d] ELSE other[d]]
        kept == {d \in DOMAIN drained :
                    d[2] = Max(VvGet(vv1, d[1]), VvGet(vv2, d[1]))}
    IN  Restrict(drained, kept)

\* self is drained into other (an insert replaces other's value of the same
\* dot and marks the dot a duplicate), then other is drained back into self,
\* keeping the duplicates and the dots whose version is the larger of the
\* two vectors' entries for the dot's id
DotsMerge(self, other, vv1, vv2) ==
    LET drained == [d \in DOMAIN self \cup DOMAIN other |->
                        IF d \in DOMAIN self THEN self[d] ELSE other[d]]
        dups == DOMAIN self \cap DOMAIN other
        kept == {d \in DOMAIN drained :
                    \/ d \in dups
                    \/ d[2] = Max(VvGet(vv1, d[1]), VvGet(vv2, d[1]))}
    IN  Restrict(drained, kept)

DotsAdd(dots, dot, value) ==
    [d \in DOMAIN dots \cup {dot} |-> IF d = dot THEN value ELSE dots[d]]

(***************************************************************************)
(* DottedCausalContainer: [dots, vv].                                      *)
(***************************************************************************)
DccNew == [dots |-> DotsNew, vv |-> VvNew]

DccSync(self, other) ==
    [dots |-> DotsMerge(self.dots, other.dots, self.vv, other.vv),
     vv |-> VvMerge(self.vv, other.vv)]

DccAdd(self, id, version, value) ==
    [dots |-> DotsAdd(self.dots, <<id, version>>, value),
     vv |-> VvAdd(self.vv, id, version)]

RECURSIVE AddDotsToBvv(_, _)
AddDotsToBvv(dotset, bvv) ==
    IF dotset = {} THEN bvv
    ELSE LET d == CHOOSE e \in dotset : TRUE
         IN  AddDotsToBvv(dotset \ {d}, BvvAdd(bvv, d[1], d[2]))

\* other.add(id, version) for every dot
DccAddToBvv(self, other) == AddDotsToBvv(DOMAIN self.dots, other)

\* a plausible slip of discard: a dot at the version of vv is kept
DccDiscardKeepsCovered(self, vv) ==
    [dots |-> Restrict(self.dots,
                       {d \in DOMAIN self.dots : d[2] >= VvGet(vv, d[1])}),
     vv |-> VvMerge(self.vv, vv)]

DccDiscard(self, vv) ==
    [dots |-> Restrict(self.dots,
                       {d \in DOMAIN self.dots : d[2] > VvGet(vv, d[1])}),
     vv |-> VvMerge(self.vv, vv)]

\* a plausible slip of strip: an entry at the base is kept
DccStripKeepsBase(self, bvv) ==
    [self EXCEPT !.vv =
        Restrict(self.vv, {i \in DOMAIN self.vv : self.vv[i] >= BvvBase(bvv, i)})]

DccStrip(self, bvv) ==
    [self EXCEPT !.vv =
        Restrict(self.vv, {i \in DOMAIN self.vv : self.vv[i] > BvvBase(bvv, i)})]

\* a plausible slip of fill: the base is inserted over a larger entry
DccFillOverwrites(self, bvv) ==
    [self EXCEPT !.vv =
        [i \in DOMAIN self.vv \cup DOMAIN bvv |->
            IF i \notin DOMAIN bvv THEN self.vv[i] ELSE bvv[i].base]]

DccFill(self, bvv) ==
    [self EXCEPT !.vv =
        [i \in DOMAIN self.vv \cup DOMAIN bvv |->
            IF i \notin DOMAIN bvv THEN self.vv[i]
            ELSE IF i \notin DOMAIN self.vv THEN bvv[i].base
            ELSE Max(self.vv[i], bvv[i].base)]]

\* values(): the sibling values
DccValues(self) == {self.dots[d] : d \in DOMAIN self.dots}

DccIsEmpty(self) == DOMAIN self.dots = {}

(***************************************************************************)
(* The container algebra: operands drawn from bounded sets, one action per *)
(* operation.                                                              *)
(***************************************************************************)
PartialMaps(K, V) == UNION {[S -> V] : S \in SUBSET K}

\* every container over the bounded dots and vectors, also those whose
\* version vector does not cover their own dots (test_dcc::data builds such)
DccInputs ==
    {[dots |-> d, vv |-> v] :
        d \in PartialMaps(DotIds \X (1..MaxVersion), Values),
        v \in PartialMaps(Ids, 0..MaxVersion)}

\* the containers one add builds from a new one, and the new one
DccSmall ==
    {DccNew} \cup
    {DccAdd(DccNew, i, v, val) : i \in DotIds, v \in 1..MaxVersion, val \in Values}

\* the version vector covers every dot
Covered(d) == \A dot \in DOMAIN d.dots : dot[2] <= VvGet(d.vv, dot[1])

\* the containers that add, discard and sync build from new ones
RECURSIVE BuiltFrom(_)
BuiltFrom(S) ==
    LET step ==
            S \cup {DccAdd(d, i, v, val) :
                        d \in S, i \in DotIds, v \in 1..MaxVersion, val \in Values}
              \cup {DccDiscard(d, vv) :
                        d \in S, vv \in PartialMaps(Ids, 0..MaxVersion)}
              \cup {DccSync(a, b) : a \in S, b \in S}
    IN  IF step = S THEN S ELSE BuiltFrom(step)

DccBuilt == BuiltFrom({DccNew})

NoRes == [op |-> "none", r1 |-> DccNew, r2 |-> DccNew]

NoBres == [op |-> "none", r1 |-> BvvNew, r2 |-> BvvNew]

NoCmd == [token |-> 0, value |-> << >>, calls |-> << >>, state |-> "none"]

\* the lock, worker pool and channel checks are not running
NoChan == [state |-> "none"]
NoSys ==
    /\ locks = [state |-> "none"] /\ pool = [state |-> "none"]
    /\ chan = NoChan

\* the clock checks and the command handler are not running
NoClk ==
    /\ ba = BvvNew /\ bb = BvvNew
    /\ bres = NoBres
    /\ cmd = NoCmd
    /\ NoSys

NodePairs == {p \in Nodes \X Nodes : p[1] # p[2]}

NoHist ==
    [writes |-> 0, sets |-> 0,
     claimed |-> FALSE, claim_store |-> << >>, claim_sets |-> 0,
     wiped |-> 0, wipe_node |-> 0, wipe_store |-> << >>, wipe_sets |-> 0,
     wipe_reqs |-> 0, wipe_clean |-> FALSE, synced |-> {},
     handoff |-> << >>, ticks |-> 0, starts |-> 0, sib |-> [k \in Keys |-> << >>],
     revokes |-> 0, cancelled |-> {},
     reloads |-> 0, reload_node |-> 0, reload_clean |-> FALSE,
     reload_reqs |-> 0, reload_sets |-> 0, reload_log |-> 0,
     reload_store |-> << >>,
     lives |-> [n \in Nodes |-> 0], dirty |-> {}]

\* no database is running: the state of the cluster variables while the
\* container algebra is checked, and the base of every cluster's start
DbIdle ==
    /\ ring = [owners |-> {}, pending |-> {}]
    /\ dhtq = [n \in Nodes |-> 0]
    /\ status = [n \in Nodes |-> "Absent"]
    /\ clocks = [n \in Nodes |-> BvvNew]
    /\ storage = [n \in Nodes |-> << >>]
    /\ log = [n \in Nodes |-> << >>]
    /\ pending = [n \in Nodes |-> << >>]
    /\ migrations = [n \in Nodes |-> << >>]
    /\ syncs = [n \in Nodes |-> << >>]
    /\ cookie_seq = [n \in Nodes |-> 0]
    /\ net = [p \in NodePairs |-> << >>]
    /\ reqs = << >>
    /\ hist = NoHist

InitDcc ==
    /\ dx \in DccInputs
    /\ dy \in DccInputs
    /\ dz = DccNew
    /\ dres = NoRes
    /\ NoClk
    /\ DbIdle

\* x.sync(y) and y.sync(x)
ApplySync ==
    /\ dres.op = "none"
    /\ dres' = [op |-> "sync", r1 |-> DccSync(dx, dy), r2 |-> DccSync(dy, dx)]
    /\ UNCHANGED <<dx, dy, dz, ba, bb, bres, cmd, locks, pool, chan>>
    /\ UNCHANGED dbVars

\* x.sync(x.clone())
ApplySyncSelf ==
    /\ dres.op = "none"
    /\ dres' = [op |-> "self", r1 |-> DccSync(dx, dx), r2 |-> dx]
    /\ UNCHANGED <<dx, dy, dz, ba, bb, bres, cmd, locks, pool, chan>>
    /\ UNCHANGED dbVars

\* (x.sync(y)).sync(z) and x.sync(y.sync(z))
ApplySyncThree ==
    /\ dres.op = "none"
    /\ \E z \in DccSmall :
        /\ dz' = z
        /\ dres' = [op |-> "three",
                    r1 |-> DccSync(DccSync(dx, dy), z),
                    r2 |-> DccSync(dx, DccSync(dy, z))]
    /\ UNCHANGED <<dx, dy, ba, bb, bres, cmd, locks, pool, chan>>
    /\ UNCHANGED dbVars

NextDcc == ApplySync \/ ApplySyncSelf \/ ApplySyncThree

SpecDcc == InitDcc /\ [][NextDcc]_vars

(***************************************************************************)
(* Claims about DottedCausalContainer.sync, checked under SpecDcc.         *)
(***************************************************************************)
\* a dot present in both containers carries the same value in both
SameSharedValues(x, y) ==
    \A d \in DOMAIN x.dots \cap DOMAIN y.dots : x.dots[d] = y.dots[d]

\* C4: sync is commutative: for all containers x and y in which a dot
\* present in both carries the same value, x.sync(y) and y.sync(x) are equal
\* containers (same dots, same values, same version vector).
C4_SyncCommutative ==
    (dres.op = "sync" /\ SameSharedValues(dx, dy)) => dres.r1 = dres.r2

\* the case of C4: the sides share a dot, one side holds a dot of its own
\* that survives, the version vectors differ and have different actors, and
\* both orders of sync have run
C4_Witness ==
    /\ dres.op = "sync"
    /\ SameSharedValues(dx, dy)
    /\ DOMAIN dx.dots \cap DOMAIN dy.dots # {}
    /\ DOMAIN dy.dots \ DOMAIN dx.dots # {}
    /\ DOMAIN dx.vv # DOMAIN dy.vv
    /\ Cardinality(DOMAIN dres.r1.dots) = 2
    /\ dres.r1 = dres.r2

\* C5: sync is associative: for all containers x, y, z built by add, discard
\* and sync (here also with shared dots carrying one value),
\* (x.sync(y)).sync(z) = x.sync(y.sync(z)).
C5_SyncAssociative ==
    (/\ dres.op = "three"
     /\ dx \in DccBuilt /\ dy \in DccBuilt /\ dz \in DccBuilt
     /\ SameSharedValues(dx, dy) /\ SameSharedValues(dy, dz)
     /\ SameSharedValues(dx, dz))
    => dres.r1 = dres.r2

\* C6: sync is idempotent: for every container x, also one whose version
\* vector does not cover its own dots, x.sync(x.clone()) leaves x unchanged.
C6_SyncIdempotent == dres.op = "self" => dres.r1 = dx

\* the case of C6: a container with two dots that its vector does not cover
C6_Witness ==
    /\ dres.op = "self"
    /\ Cardinality(DOMAIN dx.dots) >= 2
    /\ ~Covered(dx)
    /\ dres.r1 = dx

\* the dots x.sync(y) must hold by the rule of the dotted version vector
\* set: present in both sides, or above the vector of the side that lacks it
SurvivesSync(d, x, y) ==
    \/ d \in DOMAIN x.dots /\ d \in DOMAIN y.dots
    \/ d \in DOMAIN x.dots /\ d \notin DOMAIN y.dots /\ d[2] > VvGet(y.vv, d[1])
    \/ d \in DOMAIN y.dots /\ d \notin DOMAIN x.dots /\ d[2] > VvGet(x.vv, d[1])

\* C7: in x.sync(y) a dot of either side is in the result iff it is present
\* in both sides or its version is above the version vector of the side that
\* lacks it; syncing with an empty container removes no dot; the resulting
\* version vector is the elementwise maximum of both. Stated for containers
\* built by add, discard and sync, the ones the database holds.
C7_SyncKeepsUndominated ==
    (dres.op = "sync" /\ dx \in DccBuilt /\ dy \in DccBuilt) =>
        /\ \A d \in DOMAIN dx.dots \cup DOMAIN dy.dots :
                d \in DOMAIN dres.r1.dots <=> SurvivesSync(d, dx, dy)
        /\ (dy = DccNew => DOMAIN dres.r1.dots = DOMAIN dx.dots)
        /\ \A i \in Ids :
                VvGet(dres.r1.vv, i) = Max(VvGet(dx.vv, i), VvGet(dy.vv, i))

(***************************************************************************)
(* The cluster: Database (database.rs) over one partition, its vnode on    *)
(* every node, the DHT ring and the fabric.  The vnode's handlers follow   *)
(* the replication protocol of the design document (4.3); the Database     *)
(* layer, the containers and the clocks follow the source.                 *)
(***************************************************************************)
\* dht.nodes_for_vnode(i, include_pending)
NodesForVnode(include_pending) ==
    ring.owners \cup (IF include_pending THEN ring.pending ELSE {})

\* the quorum of n replicas: 2 of 3, and 1 of 1 as test_one needs
Quorum(n) == n \div 2 + 1

\* storage get of a key: the stored container, a new one when absent
Load(n, k) == IF k \in DOMAIN storage[n] THEN storage[n][k] ELSE DccNew

\* fabric.send_message of msg to every node of targets
SendAll(nt, from, targets, msg) ==
    [p \in NodePairs |->
        IF p[1] = from /\ p[2] \in targets THEN Append(nt[p], msg) ELSE nt[p]]

\* the head of the channel from -> to is taken, and the handler's replies
\* are sent back to from
Reply(from, to, msgs) ==
    [p \in NodePairs |->
        IF p = <<from, to>> THEN Tail(net[p])
        ELSE IF p = <<to, from>> THEN net[p] \o msgs
        ELSE net[p]]

Head1(from, to, type) ==
    /\ net[<<from, to>>] # << >>
    /\ Head(net[<<from, to>>]).type = type

\* response_fn(token, value)
Respond(rq, token, kind, dcc) ==
    [rq EXCEPT ![token].responses =
        Append(@, [kind |-> kind, dcc |-> dcc, writes |-> hist.writes])]

\* history of a request: what the client sent, the cookie and fan-out of its
\* coordinator, and the acks the coordinating node was handed
NewReq(op, n, k, value, ctx, accepted, cookie) ==
    [op |-> op, node |-> n, key |-> k, value |-> value, ctx |-> ctx,
     accepted |-> accepted, cookie |-> cookie,
     fanout |-> Cardinality(NodesForVnode(op = "set")),
     acks_ok |-> 0, acks_err |-> 0, acks_late |-> 0,
     writes |-> hist.writes, sets |-> hist.sets,
     drained |-> \A m \in Nodes : migrations[m] = << >> /\ syncs[m] = << >>,
     settled |-> \A t \in DOMAIN reqs :
                    (reqs[t].op = "set" /\ reqs[t].accepted) =>
                        /\ reqs[t].responses # << >>
                        /\ reqs[t].responses[1].kind = "ok",
     expect |-> {hist.sib[k][d] : d \in DOMAIN hist.sib[k]},
     life |-> hist.lives[n],
     lost |-> FALSE, responses |-> << >>]

\* the requests that wait for their response
Outstanding ==
    Cardinality({t \in DOMAIN reqs : reqs[t].responses = << >> /\ ~reqs[t].lost})

\* the version vectors a client holds: an empty one and those of the
\* containers its reads of the key returned
Contexts(k) ==
    {VvNew} \cup
    {reqs[t].responses[1].dcc.vv :
        t \in {u \in DOMAIN reqs : /\ reqs[u].op = "get"
                                   /\ reqs[u].key = k
                                   /\ reqs[u].responses # << >>
                                   /\ reqs[u].responses[1].kind = "ok"}}

\* a plausible slip: the response is sent and the state stays in the table
SettleKeepsState(n, cookie, st, rq) ==
    IF st.replies_ok >= st.required
    THEN /\ pending' = [pending EXCEPT ![n] = Put(@, cookie, st)]
         /\ reqs' = Respond(rq, st.token, "ok",
                            IF st.op = "set" THEN DccNew ELSE st.dcc)
    ELSE IF st.replies_ok + st.replies_err = st.fanout
    THEN /\ pending' = [pending EXCEPT ![n] = Remove(@, cookie)]
         /\ reqs' = Respond(rq, st.token, "quorum_failed", DccNew)
    ELSE /\ pending' = [pending EXCEPT ![n] = Put(@, cookie, st)]
         /\ reqs' = rq

\* the coordinator's decision after a reply was counted
Settle(n, cookie, st, rq) ==
    IF st.replies_ok >= st.required
    THEN /\ pending' = [pending EXCEPT ![n] = Remove(@, cookie)]
         /\ reqs' = Respond(rq, st.token, "ok",
                            IF st.op = "set" THEN DccNew ELSE st.dcc)
    ELSE IF st.replies_ok + st.replies_err = st.fanout
    THEN /\ pending' = [pending EXCEPT ![n] = Remove(@, cookie)]
         /\ reqs' = Respond(rq, st.token, "quorum_failed", DccNew)
    ELSE /\ pending' = [pending EXCEPT ![n] = Put(@, cookie, st)]
         /\ reqs' = rq

\* VNode::do_set (design 4.2, 4.3.1); the response to a SET carries an
\* empty container (tests::test_one).  The history keeps, by key, the
\* siblings the writes accepted so far should leave: those whose dot the
\* context does not dominate, and the new value under its dot
\* the value of a SET that carries none (Database::set with value None)
NoValue == 0

DoSet(n, token, k, value, ctx) ==
    /\ LET cookie == <<n, cookie_seq[n]>>
       IN  IF status[n] # "Ready"
           THEN /\ reqs' = Respond(Append(reqs, NewReq("set", n, k, value, ctx,
                                                       FALSE, <<0, 0>>)),
                                   token, "not_ready", DccNew)
                /\ UNCHANGED <<ring, dhtq, nodeVars, net, hist>>
           ELSE LET discarded == DccDiscard(Load(n, k), ctx)
                    version == BvvEventVersion(clocks[n], n)
                    bvv == BvvEvent(clocks[n], n)
                    added == IF value = NoValue THEN discarded
                             ELSE DccAdd(discarded, n, version, value)
                    stored == DccStrip(added, bvv)
                    filled == DccFill(stored, bvv)
                    nodes == NodesForVnode(TRUE)
                    st == [op |-> "set", token |-> token, key |-> k,
                           dcc |-> filled, replies_ok |-> 1, replies_err |-> 0,
                           fanout |-> Cardinality(nodes),
                           required |-> Quorum(Cardinality(nodes)),
                           ttl |-> ReqTicks]
                IN  /\ clocks' = [clocks EXCEPT ![n] = bvv]
                    /\ storage' = [storage EXCEPT ![n] = Put(@, k, stored)]
                    /\ log' = [log EXCEPT ![n] = Append(@, <<n, version>>)]
                    /\ cookie_seq' = [cookie_seq EXCEPT ![n] = @ + 1]
                    /\ hist' = [hist EXCEPT
                           !.writes = @ + 1, !.sets = @ + 1,
                           !.sib[k] =
                               LET left == Restrict(@, {d \in DOMAIN @ :
                                              d[2] > VvGet(ctx, d[1])})
                               IN  IF value = NoValue THEN left
                                   ELSE Put(left, <<n, version>>, value)]
                    /\ net' = SendAll(net, n, nodes \ {n},
                                      [type |-> "RemoteSet", cookie |-> cookie,
                                       key |-> k, container |-> filled])
                    /\ Settle(n, cookie, st,
                              Append(reqs, NewReq("set", n, k, value, ctx,
                                                  TRUE, cookie)))
                    /\ UNCHANGED <<ring, dhtq, status, migrations, syncs>>

\* Database::set: the vnode of the key runs do_set; the client picks the
\* token, a value of its own and a context it holds
DatabaseSet(n, k, ctx) ==
    /\ Outstanding < MaxOutstanding
    /\ DoSet(n, Len(reqs) + 1, k, Len(reqs) + 1, ctx)
    /\ UNCHANGED algVars

\* a plausible slip of the coordinator: the counter is read for the cookie
\* and not incremented
DoGetKeepsCounter(n, token, k) ==
    /\ LET cookie == <<n, cookie_seq[n]>>
       IN  IF status[n] # "Ready"
           THEN /\ reqs' = Respond(Append(reqs, NewReq("get", n, k, 0, VvNew,
                                                       FALSE, <<0, 0>>)),
                                   token, "not_ready", DccNew)
                /\ UNCHANGED <<ring, dhtq, nodeVars, net, hist>>
           ELSE LET nodes == NodesForVnode(FALSE)
                    st == [op |-> "get", token |-> token, key |-> k,
                           dcc |-> DccFill(Load(n, k), clocks[n]),
                           replies_ok |-> 1, replies_err |-> 0,
                           fanout |-> Cardinality(nodes),
                           required |-> Quorum(Cardinality(nodes)),
                           ttl |-> ReqTicks]
                IN  /\ UNCHANGED cookie_seq
                    /\ net' = SendAll(net, n, nodes \ {n},
                                      [type |-> "RemoteGet", cookie |-> cookie,
                                       key |-> k])
                    /\ Settle(n, cookie, st,
                              Append(reqs, NewReq("get", n, k, 0, VvNew,
                                                  TRUE, cookie)))
                    /\ UNCHANGED <<ring, dhtq, status, clocks, storage, log,
                                   migrations, syncs, hist>>

\* VNode::do_get (design 4.3.2)
DoGet(n, token, k) ==
    /\ LET cookie == <<n, cookie_seq[n]>>
       IN  IF status[n] # "Ready"
           THEN /\ reqs' = Respond(Append(reqs, NewReq("get", n, k, 0, VvNew,
                                                       FALSE, <<0, 0>>)),
                                   token, "not_ready", DccNew)
                /\ UNCHANGED <<ring, dhtq, nodeVars, net, hist>>
           ELSE LET nodes == NodesForVnode(FALSE)
                    st == [op |-> "get", token |-> token, key |-> k,
                           dcc |-> DccFill(Load(n, k), clocks[n]),
                           replies_ok |-> 1, replies_err |-> 0,
                           fanout |-> Cardinality(nodes),
                           required |-> Quorum(Cardinality(nodes)),
                           ttl |-> ReqTicks]
                IN  /\ cookie_seq' = [cookie_seq EXCEPT ![n] = @ + 1]
                    /\ net' = SendAll(net, n, nodes \ {n},
                                      [type |-> "RemoteGet", cookie |-> cookie,
                                       key |-> k])
                    /\ Settle(n, cookie, st,
                              Append(reqs, NewReq("get", n, k, 0, VvNew,
                                                  TRUE, cookie)))
                    /\ UNCHANGED <<ring, dhtq, status, clocks, storage, log,
                                   migrations, syncs, hist>>

\* Database::get: the vnode of the key runs do_get
\* DEL: Database::set with no value and the client's context
DatabaseDel(n, k, ctx) ==
    /\ Outstanding < MaxOutstanding
    /\ DoSet(n, Len(reqs) + 1, k, NoValue, ctx)
    /\ UNCHANGED algVars

DatabaseGet(n, k) ==
    /\ Outstanding < MaxOutstanding
    /\ DoGet(n, Len(reqs) + 1, k)
    /\ UNCHANGED algVars

(***************************************************************************)
(* Replica side of GET and SET, the coordinator's handling of the acks,    *)
(* and the deadline.                                                       *)
(***************************************************************************)
\* history: an ack handed to the coordinating node's Database while the
\* request it answers has no response yet is counted with the request
CountAck(rq, to, m) ==
    [t \in DOMAIN rq |->
        IF /\ rq[t].accepted /\ ~rq[t].lost
           /\ rq[t].node = to /\ rq[t].cookie = m.cookie
        THEN IF rq[t].responses # << >>
             THEN [rq[t] EXCEPT !.acks_late = @ + 1]
             ELSE [rq[t] EXCEPT !.acks_ok = @ + (IF m.ok THEN 1 ELSE 0),
                                !.acks_err = @ + (IF m.ok THEN 0 ELSE 1)]
        ELSE rq[t]]

\* VNode::handler_set_remote (design 4.3.1, replica side)
VnHandlerSetRemote(to, from, m) ==
    IF status[to] # "Ready"
    THEN /\ net' = Reply(from, to, <<[type |-> "RemoteSetAck",
                                      cookie |-> m.cookie, ok |-> FALSE]>>)
         /\ UNCHANGED <<clocks, storage, log, hist>>
    ELSE LET synced == DccSync(Load(to, m.key), m.container)
             bvv == DccAddToBvv(synced, clocks[to])
         IN  /\ clocks' = [clocks EXCEPT ![to] = bvv]
             /\ storage' = [storage EXCEPT
                                ![to] = Put(@, m.key, DccStrip(synced, bvv))]
             /\ UNCHANGED log
             /\ hist' = [hist EXCEPT !.writes = @ + 1]
             /\ net' = Reply(from, to, <<[type |-> "RemoteSetAck",
                                          cookie |-> m.cookie, ok |-> TRUE]>>)

\* VNode::handler_set_remote_ack (design 4.3.1, step 5)
VnHandlerSetRemoteAck(to, from, m, rq) ==
    IF m.cookie \in DOMAIN pending[to] /\ pending[to][m.cookie].op = "set"
    THEN LET st == pending[to][m.cookie]
         IN  Settle(to, m.cookie,
                    IF m.ok THEN [st EXCEPT !.replies_ok = @ + 1]
                            ELSE [st EXCEPT !.replies_err = @ + 1],
                    rq)
    ELSE /\ reqs' = rq
         /\ UNCHANGED pending

\* VNode::handler_get_remote (design 4.3.2, replica side)
VnHandlerGetRemote(to, from, m) ==
    net' = Reply(from, to,
                 <<IF status[to] # "Ready"
                   THEN [type |-> "RemoteGetAck", cookie |-> m.cookie,
                         ok |-> FALSE, container |-> DccNew]
                   ELSE [type |-> "RemoteGetAck", cookie |-> m.cookie,
                         ok |-> TRUE,
                         container |-> DccFill(Load(to, m.key), clocks[to])]>>)

\* VNode::handler_get_remote_ack (design 4.3.2, step 3)
VnHandlerGetRemoteAck(to, from, m, rq) ==
    IF m.cookie \in DOMAIN pending[to] /\ pending[to][m.cookie].op = "get"
    THEN LET st == pending[to][m.cookie]
         IN  Settle(to, m.cookie,
                    IF m.ok THEN [st EXCEPT !.replies_ok = @ + 1,
                                            !.dcc = DccSync(@, m.container)]
                            ELSE [st EXCEPT !.replies_err = @ + 1],
                    rq)
    ELSE /\ reqs' = rq
         /\ UNCHANGED pending

\* Database::handler_set_remote, reached from handler_fabric_msg
HandlerSetRemote(from, to) ==
    /\ Head1(from, to, "RemoteSet")
    /\ VnHandlerSetRemote(to, from, Head(net[<<from, to>>]))
    /\ UNCHANGED <<ring, dhtq, status, pending, migrations, syncs, cookie_seq,
                   reqs>>
    /\ UNCHANGED algVars

\* a plausible slip of the dispatch: the ack is taken and never handed to
\* the vnode
HandlerSetRemoteAckDropped(from, to) ==
    /\ Head1(from, to, "RemoteSetAck")
    /\ reqs' = CountAck(reqs, to, Head(net[<<from, to>>]))
    /\ net' = Reply(from, to, << >>)
    /\ UNCHANGED <<ring, dhtq, nodeVars, hist>>
    /\ UNCHANGED algVars

\* Database::handler_set_remote_ack, reached from handler_fabric_msg
HandlerSetRemoteAck(from, to) ==
    /\ Head1(from, to, "RemoteSetAck")
    /\ VnHandlerSetRemoteAck(to, from, Head(net[<<from, to>>]),
                             CountAck(reqs, to, Head(net[<<from, to>>])))
    /\ net' = Reply(from, to, << >>)
    /\ UNCHANGED <<ring, dhtq, status, clocks, storage, log, migrations, syncs,
                   cookie_seq, hist>>
    /\ UNCHANGED algVars

\* Database::handler_get_remote, reached from handler_fabric_msg
HandlerGetRemote(from, to) ==
    /\ Head1(from, to, "RemoteGet")
    /\ VnHandlerGetRemote(to, from, Head(net[<<from, to>>]))
    /\ UNCHANGED <<ring, dhtq, nodeVars, reqs, hist>>
    /\ UNCHANGED algVars

\* Database::handler_get_remote_ack, reached from handler_fabric_msg
HandlerGetRemoteAck(from, to) ==
    /\ Head1(from, to, "RemoteGetAck")
    /\ VnHandlerGetRemoteAck(to, from, Head(net[<<from, to>>]),
                             CountAck(reqs, to, Head(net[<<from, to>>])))
    /\ net' = Reply(from, to, << >>)
    /\ UNCHANGED <<ring, dhtq, status, clocks, storage, log, migrations, syncs,
                   cookie_seq, hist>>
    /\ UNCHANGED algVars

(***************************************************************************)
(* Deadlines, membership changes and the handoff of a claimed partition.   *)
(***************************************************************************)
\* the messages a handoff or synchronization keeps unacknowledged
HandoffWindow == 1

\* history of one handoff, by cookie: the (seq, key) pairs the source sent,
\* those the destination applied, the seqs acknowledged to the source, and
\* whether the destination processed BootstrapFin(Ok)
NoHandoff == [sent |-> {}, applied |-> {}, acked |-> {}, fin |-> FALSE]

HandoffOf(c) ==
    IF c \in DOMAIN hist.handoff THEN hist.handoff[c] ELSE NoHandoff

NoteHandoff(c, r) == [hist EXCEPT !.handoff = Put(@, c, r)]

\* the source's storage iterator: the next keys go out while the window has
\* room; the containers travel filled, as those of RemoteSet do
RECURSIVE BootstrapEmit(_, _, _)
BootstrapEmit(n, st, msgs) ==
    LET rest == {k \in DOMAIN storage[n] : k > st.last}
    IN  IF st.inflight >= HandoffWindow \/ rest = {}
        THEN [st |-> st, msgs |-> msgs]
        ELSE BootstrapEmit(n,
                 [st EXCEPT !.last = MinOf(rest), !.seq = @ + 1,
                            !.inflight = @ + 1],
                 Append(msgs,
                     [type |-> "BootstrapSend", cookie |-> st.cookie,
                      seq |-> st.seq + 1, key |-> MinOf(rest),
                      container |-> DccFill(storage[n][MinOf(rest)],
                                            clocks[n])]))

SentOf(msgs) == {<<msgs[i].seq, msgs[i].key>> : i \in DOMAIN msgs}

\* the incoming node starts a handoff from src (design 4.3.3); st is the
\* vnode's table of migrations before the start
StartMigration(n, src, table) ==
    /\ migrations' = [migrations EXCEPT ![n] =
           Put(table, <<n, cookie_seq[n]>>,
               [dir |-> "in", cookie |-> <<n, cookie_seq[n]>>, peer |-> src,
                last |-> 0, seq |-> 0, inflight |-> 0, ttl |-> ReqTicks])]
    /\ cookie_seq' = [cookie_seq EXCEPT ![n] = @ + 1]
    /\ net' = SendAll(net, n, {src}, [type |-> "BootstrapStart",
                                      cookie |-> <<n, cookie_seq[n]>>])

\* a vnode in Bootstrap whose handoffs are all past their deadline starts
\* one again
RetriesHandoff(n) ==
    /\ status[n] = "Bootstrap"
    /\ \A c \in DOMAIN migrations[n] : migrations[n][c].ttl <= 1
    /\ hist.starts < MaxStarts
    /\ ring.owners \ {n} # {}

\* a claim-in finds a Ready replica to pull from
ClaimsIn(n, final_status) ==
    /\ status[n] = "Absent" /\ final_status = "Ready"
    /\ hist.starts < MaxStarts
    /\ ring.owners \ {n} # {}

\* states whose deadline passes at this tick
Expired(table) == {c \in DOMAIN table : table[c].ttl <= 1}

Aged(table) ==
    [c \in DOMAIN table \ Expired(table) |-> [table[c] EXCEPT !.ttl = @ - 1]]

\* VNode::handler_tick: expired coordinators answer their client with a
\* timeout, expired handoffs and synchronizations are retired, and a vnode
\* left in Bootstrap without a handoff starts one again
VnHandlerTick(n) ==
    /\ pending' = [pending EXCEPT ![n] = Aged(@)]
    /\ reqs' = [t \in DOMAIN reqs |->
                   IF \E c \in Expired(pending[n]) : pending[n][c].token = t
                   THEN [reqs[t] EXCEPT !.responses =
                            Append(@, [kind |-> "timeout", dcc |-> DccNew,
                                       writes |-> hist.writes])]
                   ELSE reqs[t]]
    /\ syncs' = [syncs EXCEPT ![n] = Aged(@)]
    /\ IF RetriesHandoff(n)
       THEN \E src \in ring.owners \ {n} :
                StartMigration(n, src, Aged(migrations[n]))
       ELSE /\ migrations' = [migrations EXCEPT ![n] = Aged(@)]
            /\ UNCHANGED <<cookie_seq, net>>
    /\ UNCHANGED <<status, clocks, storage, log>>

\* a plausible slip of handler_tick: the Tick is taken from the queue and
\* no vnode is handed it
HandlerTickSkipped(n) ==
    /\ \/ pending[n] # << >> \/ migrations[n] # << >> \/ syncs[n] # << >>
       \/ RetriesHandoff(n)
    /\ UNCHANGED vars

\* Database::handler_tick; a tick that finds no deadline passed and nothing
\* to retry changes nothing
HandlerTick(n) ==
    /\ \/ pending[n] # << >> \/ migrations[n] # << >> \/ syncs[n] # << >>
       \/ RetriesHandoff(n)
    /\ VnHandlerTick(n)
    /\ hist' = [hist EXCEPT !.ticks = @ + 1,
                            !.starts = @ + (IF RetriesHandoff(n) THEN 1 ELSE 0)]
    /\ UNCHANGED <<ring, dhtq>>
    /\ UNCHANGED algVars

\* a plausible slip of the revocation: the status changes and the inflight
\* states stay
VnHandlerDhtChangeKeepsInflight(n, final_status) ==
    IF status[n] = "Absent" /\ final_status = "Ready"
    THEN /\ status' = [status EXCEPT ![n] = "Bootstrap"]
         /\ IF ClaimsIn(n, final_status)
            THEN \E src \in ring.owners \ {n} :
                     StartMigration(n, src, migrations[n])
            ELSE UNCHANGED <<migrations, cookie_seq, net>>
         /\ UNCHANGED <<clocks, storage, log, pending, syncs, reqs>>
    ELSE IF status[n] # "Absent" /\ final_status = "Absent"
    THEN /\ status' = [status EXCEPT ![n] = "Absent"]
         /\ UNCHANGED <<clocks, storage, log, pending, migrations, syncs,
                        cookie_seq, net, reqs>>
    ELSE UNCHANGED <<status, clocks, storage, log, pending, migrations, syncs,
                     cookie_seq, net, reqs>>

\* VNode::handler_dht_change (design 4.3): claim-in starts a handoff, a
\* revocation cancels what is in flight and answers the clients with an error
VnHandlerDhtChange(n, final_status) ==
    IF status[n] = "Absent" /\ final_status = "Ready"
    THEN /\ status' = [status EXCEPT ![n] = "Bootstrap"]
         /\ IF ClaimsIn(n, final_status)
            THEN \E src \in ring.owners \ {n} :
                     StartMigration(n, src, migrations[n])
            ELSE UNCHANGED <<migrations, cookie_seq, net>>
         /\ UNCHANGED <<clocks, storage, log, pending, syncs, reqs>>
    ELSE IF status[n] # "Absent" /\ final_status = "Absent"
    THEN /\ status' = [status EXCEPT ![n] = "Absent"]
         /\ reqs' = [t \in DOMAIN reqs |->
                        IF \E c \in DOMAIN pending[n] : pending[n][c].token = t
                        THEN [reqs[t] EXCEPT !.responses =
                                 Append(@, [kind |-> "timeout", dcc |-> DccNew,
                                            writes |-> hist.writes])]
                        ELSE reqs[t]]
         /\ pending' = [pending EXCEPT ![n] = << >>]
         /\ migrations' = [migrations EXCEPT ![n] = << >>]
         /\ syncs' = [syncs EXCEPT ![n] = << >>]
         /\ UNCHANGED <<clocks, storage, log, cookie_seq, net>>
    ELSE UNCHANGED <<nodeVars, net, reqs>>

\* a plausible slip of handler_dht_change: the membership test is left out
\* and every vnode is told to be Ready
HandlerDhtChangeAllReady(n) ==
    /\ dhtq[n] > 0
    /\ dhtq' = [dhtq EXCEPT ![n] = @ - 1]
    /\ VnHandlerDhtChange(n, "Ready")
    /\ hist' = [hist EXCEPT
           !.starts = @ + (IF ClaimsIn(n, "Ready") THEN 1 ELSE 0)]
    /\ UNCHANGED ring
    /\ UNCHANGED algVars

\* Database::handler_dht_change; it reads the ring when it runs, so
\* notifications queued behind one another act as one
HandlerDhtChange(n) ==
    /\ dhtq[n] > 0
    /\ dhtq' = [dhtq EXCEPT ![n] = @ - 1]
    /\ LET final_status == IF n \in NodesForVnode(TRUE)
                            THEN "Ready" ELSE "Absent"
       IN  /\ VnHandlerDhtChange(n, final_status)
           /\ hist' = [hist EXCEPT
                  !.starts = @ + (IF ClaimsIn(n, final_status) THEN 1 ELSE 0),
                  !.cancelled = @ \cup
                      (IF status[n] # "Absent" /\ final_status = "Absent"
                       THEN {pending[n][c].token : c \in DOMAIN pending[n]}
                       ELSE {})]
    /\ UNCHANGED ring
    /\ UNCHANGED algVars

\* dht.claim(node, ()) (design 6.5): the node is a pending owner of the
\* partition and every node's Database is told of the change
Claim(n) ==
    /\ n \notin ring.owners \cup ring.pending
    /\ ring' = [ring EXCEPT !.pending = @ \cup {n}]
    /\ dhtq' = [m \in Nodes |-> 1]
    /\ hist' = [hist EXCEPT !.claimed = TRUE,
                            !.claim_store = storage,
                            !.claim_sets = hist.sets]
    /\ UNCHANGED <<nodeVars, net, reqs>>
    /\ UNCHANGED algVars

\* VNode::handler_bootstrap_start (design 4.3.3, source): a vnode that is
\* itself being filled answers with an error
VnHandlerBootstrapStart(to, from, m) ==
    IF status[to] = "Bootstrap"
    THEN /\ net' = Reply(from, to, <<[type |-> "BootstrapFin",
                                      cookie |-> m.cookie, ok |-> FALSE,
                                      clocks |-> BvvNew]>>)
         /\ UNCHANGED <<migrations, hist>>
    ELSE LET r == BootstrapEmit(to,
                      [dir |-> "out", cookie |-> m.cookie, peer |-> from,
                       last |-> 0, seq |-> 0, inflight |-> 0,
                       ttl |-> ReqTicks], << >>)
         IN  /\ hist' = NoteHandoff(m.cookie,
                            [HandoffOf(m.cookie) EXCEPT
                                !.sent = @ \cup SentOf(r.msgs)])
             /\ IF r.st.inflight = 0
                THEN /\ net' = Reply(from, to,
                                     <<[type |-> "BootstrapFin",
                                        cookie |-> m.cookie, ok |-> TRUE,
                                        clocks |-> clocks[to]]>>)
                     /\ UNCHANGED migrations
                ELSE /\ net' = Reply(from, to, r.msgs)
                     /\ migrations' = [migrations EXCEPT
                                          ![to] = Put(@, m.cookie, r.st)]

\* VNode::handler_bootstrap_send (design 4.3.3, destination)
VnHandlerBootstrapSend(to, from, m) ==
    IF m.cookie \in DOMAIN migrations[to] /\ migrations[to][m.cookie].dir = "in"
    THEN LET synced == DccSync(Load(to, m.key), m.container)
             bvv == DccAddToBvv(synced, clocks[to])
         IN  /\ clocks' = [clocks EXCEPT ![to] = bvv]
             /\ storage' = [storage EXCEPT
                                ![to] = Put(@, m.key, DccStrip(synced, bvv))]
             /\ UNCHANGED log
             /\ hist' = [NoteHandoff(m.cookie,
                             [HandoffOf(m.cookie) EXCEPT
                                 !.applied = @ \cup {<<m.seq, m.key>>}])
                         EXCEPT !.writes = @ + 1]
             /\ net' = Reply(from, to, <<[type |-> "BootstrapAck",
                                          cookie |-> m.cookie,
                                          seq |-> m.seq]>>)
    ELSE /\ net' = Reply(from, to, << >>)
         /\ UNCHANGED <<clocks, storage, log, hist>>

\* VNode::handler_bootstrap_ack (design 4.3.3, source): the window slides,
\* and at the end of the iterator the source's clocks go out
VnHandlerBootstrapAck(to, from, m) ==
    IF m.cookie \in DOMAIN migrations[to] /\ migrations[to][m.cookie].dir = "out"
    THEN LET r == BootstrapEmit(to, [migrations[to][m.cookie] EXCEPT
                                        !.inflight = @ - 1], << >>)
         IN  /\ hist' = NoteHandoff(m.cookie,
                            [HandoffOf(m.cookie) EXCEPT
                                !.sent = @ \cup SentOf(r.msgs),
                                !.acked = @ \cup {m.seq}])
             /\ IF r.st.inflight = 0
                THEN /\ net' = Reply(from, to,
                                     <<[type |-> "BootstrapFin",
                                        cookie |-> m.cookie, ok |-> TRUE,
                                        clocks |-> clocks[to]]>>)
                     /\ migrations' = [migrations EXCEPT
                                          ![to] = Remove(@, m.cookie)]
                ELSE /\ net' = Reply(from, to, r.msgs)
                     /\ migrations' = [migrations EXCEPT
                                          ![to] = Put(@, m.cookie, r.st)]
    ELSE /\ net' = Reply(from, to, << >>)
         /\ UNCHANGED <<migrations, hist>>

\* VNode::handler_bootstrap_fin (design 4.3.3, destination): on Ok the
\* clocks are merged, the vnode is Ready and the ring completes the claim
VnHandlerBootstrapFin(to, from, m) ==
    IF m.cookie \in DOMAIN migrations[to] /\ migrations[to][m.cookie].dir = "in"
    THEN /\ migrations' = [migrations EXCEPT ![to] = Remove(@, m.cookie)]
         /\ IF m.ok
            THEN /\ clocks' = [clocks EXCEPT ![to] = BvvMerge(@, m.clocks)]
                 /\ status' = [status EXCEPT ![to] = "Ready"]
                 /\ ring' = [owners |-> ring.owners \cup {to},
                             pending |-> ring.pending \ {to}]
                 /\ hist' = NoteHandoff(m.cookie,
                                [HandoffOf(m.cookie) EXCEPT !.fin = TRUE])
            ELSE UNCHANGED <<clocks, status, ring, hist>>
    ELSE UNCHANGED <<migrations, clocks, status, ring, hist>>

\* Database::handler_fabric_msg, the arms of the handoff messages
RecvBootstrapStart(from, to) ==
    /\ Head1(from, to, "BootstrapStart")
    /\ VnHandlerBootstrapStart(to, from, Head(net[<<from, to>>]))
    /\ UNCHANGED <<ring, dhtq, status, clocks, storage, log, pending, syncs,
                   cookie_seq, reqs>>
    /\ UNCHANGED algVars

RecvBootstrapSend(from, to) ==
    /\ Head1(from, to, "BootstrapSend")
    /\ VnHandlerBootstrapSend(to, from, Head(net[<<from, to>>]))
    /\ UNCHANGED <<ring, dhtq, status, pending, migrations, syncs, cookie_seq,
                   reqs>>
    /\ UNCHANGED algVars

RecvBootstrapAck(from, to) ==
    /\ Head1(from, to, "BootstrapAck")
    /\ VnHandlerBootstrapAck(to, from, Head(net[<<from, to>>]))
    /\ UNCHANGED <<ring, dhtq, status, clocks, storage, log, pending, syncs,
                   cookie_seq, reqs>>
    /\ UNCHANGED algVars

RecvBootstrapFin(from, to) ==
    /\ Head1(from, to, "BootstrapFin")
    /\ VnHandlerBootstrapFin(to, from, Head(net[<<from, to>>]))
    /\ net' = Reply(from, to, << >>)
    /\ UNCHANGED <<dhtq, storage, log, pending, syncs, cookie_seq, reqs>>
    /\ UNCHANGED algVars

(***************************************************************************)
(* A cluster that a second node joins: node 1 owns the partition and is    *)
(* Ready, node 2 has not claimed yet (tests::test_join_migrate).           *)
(***************************************************************************)
NoAlg ==
    /\ dx = DccNew /\ dy = DccNew /\ dz = DccNew
    /\ dres = NoRes
    /\ NoClk

Init ==
    /\ NoAlg
    /\ ring = [owners |-> {1}, pending |-> {}]
    /\ dhtq = [n \in Nodes |-> 0]
    /\ status = [n \in Nodes |-> IF n = 1 THEN "Ready" ELSE "Absent"]
    /\ clocks = [n \in Nodes |-> BvvNew]
    /\ storage = [n \in Nodes |-> << >>]
    /\ log = [n \in Nodes |-> << >>]
    /\ pending = [n \in Nodes |-> << >>]
    /\ migrations = [n \in Nodes |-> << >>]
    /\ syncs = [n \in Nodes |-> << >>]
    /\ cookie_seq = [n \in Nodes |-> 0]
    /\ net = [p \in NodePairs |-> << >>]
    /\ reqs = << >>
    /\ hist = NoHist

Next ==
    \/ \E n \in Nodes, k \in Keys : \E ctx \in Contexts(k) :
           Len(reqs) < MaxOps /\ DatabaseSet(n, k, ctx)
    \/ \E n \in Nodes, k \in Keys :
           Len(reqs) < MaxOps /\ DatabaseGet(n, k)
    \/ \E p \in NodePairs : HandlerSetRemote(p[1], p[2])
    \/ \E p \in NodePairs : HandlerSetRemoteAck(p[1], p[2])
    \/ \E p \in NodePairs : HandlerGetRemote(p[1], p[2])
    \/ \E p \in NodePairs : HandlerGetRemoteAck(p[1], p[2])
    \/ \E p \in NodePairs : RecvBootstrapStart(p[1], p[2])
    \/ \E p \in NodePairs : RecvBootstrapSend(p[1], p[2])
    \/ \E p \in NodePairs : RecvBootstrapAck(p[1], p[2])
    \/ \E p \in NodePairs : RecvBootstrapFin(p[1], p[2])
    \/ \E n \in Nodes : hist.ticks < MaxTicks /\ HandlerTick(n)
    \/ \E n \in Nodes : HandlerDhtChange(n)
    \/ \E n \in Nodes : Claim(n)

Spec == Init /\ [][Next]_vars

(***************************************************************************)
(* Claims about client requests while a node joins.                        *)
(***************************************************************************)
Accepted == {t \in DOMAIN reqs : reqs[t].accepted /\ ~reqs[t].lost}

FannedOutSets == {t \in Accepted : reqs[t].op = "set" /\ reqs[t].fanout > 1}

KindOf(t) == reqs[t].responses[1].kind

\* C1: a SET that fans out reports success exactly when the successful
\* acknowledgements handed to the coordinating node before the response,
\* with the local write counted as one, reach W; it reports a write-quorum
\* error exactly when every reply is in with fewer than W successes, and a
\* timeout exactly when the deadline passed before either
C1_SetQuorum ==
    \A t \in FannedOutSets :
        LET oks == 1 + reqs[t].acks_ok
            all == 1 + reqs[t].acks_ok + reqs[t].acks_err
            W == Quorum(reqs[t].fanout)
        IN  IF reqs[t].responses = << >>
            THEN oks < W /\ all < reqs[t].fanout
            ELSE /\ (KindOf(t) = "ok") = (oks >= W)
                 /\ (KindOf(t) = "quorum_failed")
                        = (oks < W /\ all = reqs[t].fanout)
                 /\ (KindOf(t) = "timeout")
                        = (oks < W /\ all < reqs[t].fanout)

C1_Witness ==
    /\ \E t \in FannedOutSets :
           reqs[t].responses # << >> /\ KindOf(t) = "ok" /\ reqs[t].acks_ok = 1
    /\ \E t \in FannedOutSets :
           /\ reqs[t].responses # << >> /\ KindOf(t) = "quorum_failed"
           /\ reqs[t].acks_err = 1
    /\ \E t \in FannedOutSets :
           reqs[t].responses # << >> /\ KindOf(t) = "timeout"

\* the coordinator states of request t
StatesOf(t) ==
    {c \in DOMAIN pending[reqs[t].node] : pending[reqs[t].node][c].token = t}

\* C2: an accepted GET or SET never has more than one response, its
\* coordinator state is pending exactly while it has none, so the deadline
\* answers whatever the replies leave open, and it is retired with the
\* response; a request that was not accepted has its one error response
C2_OneResponse ==
    \A t \in DOMAIN reqs :
        IF t \in Accepted
        THEN /\ Len(reqs[t].responses) <= 1
             /\ (reqs[t].responses = << >>) = (StatesOf(t) # {})
             /\ Cardinality(StatesOf(t)) <= 1
             /\ \A c \in StatesOf(t) :
                    pending[reqs[t].node][c].ttl \in 1..ReqTicks
        ELSE reqs[t].lost \/ Len(reqs[t].responses) = 1

\* a GET and a SET were answered, one of them by its deadline with the ack
\* arriving afterwards
C2_Witness ==
    /\ \E t \in Accepted :
           /\ reqs[t].op = "get" /\ Len(reqs[t].responses) = 1
           /\ reqs[t].fanout > 1
    /\ \E t \in Accepted :
           /\ reqs[t].op = "set" /\ Len(reqs[t].responses) = 1
           /\ reqs[t].fanout > 1
    /\ \E t \in Accepted :
           /\ Len(reqs[t].responses) = 1 /\ KindOf(t) = "timeout"
           /\ reqs[t].acks_late = 1

\* no handoff is in flight on any node (migrations_inflight() = 0)
MigrationsDrained == \A n \in Nodes : migrations[n] = << >>

\* the values node n stored under key k when the claim was made
ClaimValues(n, k) ==
    IF k \in DOMAIN hist.claim_store[n]
    THEN DccValues(hist.claim_store[n][k]) ELSE {}

\* C9: after a claim, with no handoff in flight and no SET since the claim,
\* a GET answered at the node that joined returns for every key the old
\* owner stored the values stored; and a handoff that the destination ends
\* with BootstrapFin(Ok) has applied and acknowledged every key sent
C9_HandoffKeepsKeys ==
    /\ \A c \in DOMAIN hist.handoff :
           hist.handoff[c].fin =>
               /\ hist.handoff[c].sent \subseteq hist.handoff[c].applied
               /\ {p[1] : p \in hist.handoff[c].sent} \subseteq
                      hist.handoff[c].acked
    /\ (hist.claimed /\ hist.sets = hist.claim_sets /\ MigrationsDrained) =>
           \A t \in Accepted :
               (/\ reqs[t].op = "get" /\ reqs[t].node = 2
                /\ reqs[t].responses # << >> /\ KindOf(t) = "ok")
               => DccValues(reqs[t].responses[1].dcc)
                      = ClaimValues(1, reqs[t].key)

(***************************************************************************)
(* A cluster of two nodes that both own the partition and are Ready        *)
(* (tests::test_join_sync_reverse before the disk loss).                   *)
(***************************************************************************)
InitPair ==
    /\ NoAlg
    /\ ring = [owners |-> Nodes, pending |-> {}]
    /\ dhtq = [n \in Nodes |-> 0]
    /\ status = [n \in Nodes |-> "Ready"]
    /\ clocks = [n \in Nodes |-> BvvNew]
    /\ storage = [n \in Nodes |-> << >>]
    /\ log = [n \in Nodes |-> << >>]
    /\ pending = [n \in Nodes |-> << >>]
    /\ migrations = [n \in Nodes |-> << >>]
    /\ syncs = [n \in Nodes |-> << >>]
    /\ cookie_seq = [n \in Nodes |-> 0]
    /\ net = [p \in NodePairs |-> << >>]
    /\ reqs = << >>
    /\ hist = NoHist

NextPair ==
    \/ \E n \in Nodes, k \in Keys : \E ctx \in Contexts(k) :
           Len(reqs) < MaxPairOps /\ DatabaseSet(n, k, ctx)
    \/ \E n \in Nodes, k \in Keys :
           Len(reqs) < MaxPairOps /\ DatabaseGet(n, k)
    \/ \E p \in NodePairs : HandlerSetRemote(p[1], p[2])
    \/ \E p \in NodePairs : HandlerSetRemoteAck(p[1], p[2])
    \/ \E p \in NodePairs : HandlerGetRemote(p[1], p[2])
    \/ \E p \in NodePairs : HandlerGetRemoteAck(p[1], p[2])
    \/ \E n \in Nodes : hist.ticks < MaxTicks /\ HandlerTick(n)

SpecPair == InitPair /\ [][NextPair]_vars

\* the GETs answered with a container, issued when every SET had been
\* answered with success, and with no SET issued before their response
QuietGets ==
    {t \in Accepted :
        /\ reqs[t].op = "get" /\ reqs[t].settled
        /\ reqs[t].responses # << >> /\ KindOf(t) = "ok"
        /\ \A u \in DOMAIN reqs :
               (u > t /\ reqs[u].op = "set") =>
                   reqs[u].writes >= reqs[t].responses[1].writes}

\* C3: a GET issued after the SETs completed returns as siblings exactly
\* the values that the SETs leave when each removes the siblings whose dot
\* its context dominates (version <= ctx[id]) and adds its value
C3_ContextDominance ==
    \A t \in QuietGets :
        DccValues(reqs[t].responses[1].dcc) = reqs[t].expect

\* C8: GETs of one key coordinated at the two nodes, with every SET
\* completed and applied at the other node and no SET between them, return
\* equal containers
C8_SameOnBothNodes ==
    \A t, u \in QuietGets :
        (/\ reqs[t].key = reqs[u].key /\ reqs[t].node # reqs[u].node
         /\ reqs[t].sets = reqs[u].sets)
        => reqs[t].responses[1].dcc = reqs[u].responses[1].dcc

\* two SETs left two siblings, and a GET at each node returned them
C8_Witness ==
    \E t, u \in QuietGets :
        /\ reqs[t].key = reqs[u].key /\ reqs[t].node = 1 /\ reqs[u].node = 2
        /\ reqs[t].sets = 2 /\ reqs[u].sets = 2
        /\ Cardinality(DOMAIN reqs[t].responses[1].dcc.dots) = 2
        /\ Cardinality(DOMAIN reqs[t].responses[1].dcc.vv) = 2
        /\ reqs[t].responses[1].dcc = reqs[u].responses[1].dcc

(***************************************************************************)
(* Disk loss, restart and synchronization (design 4.3.4, 6.4).             *)
(***************************************************************************)
\* the number of disk losses
MaxWipes == 1

\* a BitmappedVersion holds a version at or below its base or in its bitmap
BvContains(bv, version) ==
    version <= bv.base \/ Bit(bv.bitmap, version - bv.base - 1)

\* bvv.get(id), a new BitmappedVersion when absent
ClockOf(bvv, id) ==
    IF id \in DOMAIN bvv THEN bvv[id] ELSE BitmappedVersionNew(0, 0)

\* the keys whose container holds a dot of the target actor that the
\* requester's clock lacks, above the key the iterator passed last
SyncRest(n, st) ==
    {k \in DOMAIN storage[n] :
        /\ k > st.last
        /\ \E d \in DOMAIN storage[n][k].dots :
               d[1] = st.target /\ ~BvContains(st.clock_in_peer, d[2])}

\* the sender's iterator, windowed like that of a handoff
RECURSIVE SyncEmit(_, _, _)
SyncEmit(n, st, msgs) ==
    IF st.inflight >= HandoffWindow \/ SyncRest(n, st) = {}
    THEN [st |-> st, msgs |-> msgs]
    ELSE SyncEmit(n,
             [st EXCEPT !.last = MinOf(SyncRest(n, st)), !.seq = @ + 1,
                        !.inflight = @ + 1],
             Append(msgs,
                 [type |-> "SyncSend", cookie |-> st.cookie,
                  seq |-> st.seq + 1, key |-> MinOf(SyncRest(n, st)),
                  container |-> DccFill(storage[n][MinOf(SyncRest(n, st))],
                                        clocks[n])]))

\* VNode::start_sync: the vnode asks a peer for the dots of the target
\* actor that its clock lacks; the target is the peer, and in reverse
\* mode the vnode's own node
VnStartSync(n, reverse, bvv, nt, seq) ==
    \E peer \in NodesForVnode(FALSE) \ {n} :
        LET target == IF reverse THEN n ELSE peer
            cookie == <<n, seq>>
        IN  /\ syncs' = [syncs EXCEPT ![n] =
                   Put(@, cookie, [dir |-> "in", cookie |-> cookie,
                                   peer |-> peer, target |-> target,
                                   ttl |-> ReqTicks])]
            /\ cookie_seq' = [cookie_seq EXCEPT ![n] = seq + 1]
            /\ net' = SendAll(nt, n, {peer},
                              [type |-> "SyncStart", cookie |-> cookie,
                               target |-> target,
                               clock_in_peer |-> ClockOf(bvv, target)])

\* Database::start_sync, called to repair what a restart left behind
StartSync(n, reverse) ==
    /\ status[n] = "Ready"
    /\ hist.starts < MaxStarts
    /\ VnStartSync(n, reverse, clocks[n], net, cookie_seq[n])
    /\ hist' = [hist EXCEPT !.starts = @ + 1]
    /\ UNCHANGED <<ring, dhtq, status, clocks, storage, log, pending, migrations,
                   reqs>>
    /\ UNCHANGED algVars

\* the containers a GET would return, by key
ReadAll ==
    [k \in Keys |->
        DccValues(DccSync(DccFill(Load(1, k), clocks[1]),
                          DccFill(Load(2, k), clocks[2])))]

\* the fabric holds nothing of a client request
CrudQuiet ==
    \A p \in NodePairs : \A i \in DOMAIN net[p] :
        net[p][i].type \notin {"RemoteSet", "RemoteSetAck"}

\* drop(db), remove_dir_all, Database::new(.., false), done as in the tests
\* while no request is outstanding and the fabric is idle: the node comes
\* back with an empty store and empty clocks, Ready for the partition it
\* owns (Database::new), its cookie counter as a new process has it, and the
\* vnode starts a reverse synchronization (design 6.4)
Restart(n) ==
    /\ hist.wiped < MaxWipes
    /\ Outstanding = 0
    /\ \A p \in NodePairs : net[p] = << >>
    /\ status[n] = "Ready"
    /\ hist.starts < MaxStarts
    /\ storage' = [storage EXCEPT ![n] = << >>]
    /\ log' = [log EXCEPT ![n] = << >>]
    /\ clocks' = [clocks EXCEPT ![n] = BvvNew]
    /\ pending' = [pending EXCEPT ![n] = << >>]
    /\ migrations' = [migrations EXCEPT ![n] = << >>]
    /\ VnStartSync(n, TRUE, BvvNew,
                   [p \in NodePairs |->
                       IF n \in {p[1], p[2]} THEN << >> ELSE net[p]], 0)
    /\ reqs' = [t \in DOMAIN reqs |->
                   IF reqs[t].node = n /\ reqs[t].responses = << >>
                   THEN [reqs[t] EXCEPT !.lost = TRUE] ELSE reqs[t]]
    /\ hist' = [hist EXCEPT
           !.starts = @ + 1, !.wiped = @ + 1, !.wipe_node = n,
           !.lives[n] = @ + 1, !.dirty = @ \cup {n},
           !.wipe_reqs = Len(reqs),
           !.wipe_store = ReadAll, !.wipe_sets = hist.sets,
           !.wipe_clean = /\ CrudQuiet
                          /\ \A t \in DOMAIN reqs :
                                 (reqs[t].op = "set" /\ reqs[t].accepted) =>
                                     /\ reqs[t].responses # << >>
                                     /\ reqs[t].responses[1].kind = "ok"]
    /\ UNCHANGED <<ring, dhtq, status>>
    /\ UNCHANGED algVars

\* VNode::handler_sync_start (design 4.3.4, the peer asked)
VnHandlerSyncStart(to, from, m) ==
    IF status[to] # "Ready"
    THEN /\ net' = Reply(from, to, <<[type |-> "SyncFin", cookie |-> m.cookie,
                                      ok |-> FALSE,
                                      clock |-> BitmappedVersionNew(0, 0)]>>)
         /\ UNCHANGED syncs
    ELSE LET r == SyncEmit(to,
                      [dir |-> "out", cookie |-> m.cookie, peer |-> from,
                       target |-> m.target, clock_in_peer |-> m.clock_in_peer,
                       last |-> 0, seq |-> 0, inflight |-> 0,
                       ttl |-> ReqTicks], << >>)
         IN  IF r.st.inflight = 0
             THEN /\ net' = Reply(from, to,
                                  <<[type |-> "SyncFin", cookie |-> m.cookie,
                                     ok |-> TRUE,
                                     clock |-> ClockOf(clocks[to], m.target)]>>)
                  /\ UNCHANGED syncs
             ELSE /\ net' = Reply(from, to, r.msgs)
                  /\ syncs' = [syncs EXCEPT ![to] = Put(@, m.cookie, r.st)]

\* VNode::handler_sync_send (design 4.3.4, the requester)
VnHandlerSyncSend(to, from, m) ==
    IF m.cookie \in DOMAIN syncs[to] /\ syncs[to][m.cookie].dir = "in"
    THEN LET synced == DccSync(Load(to, m.key), m.container)
             bvv == DccAddToBvv(synced, clocks[to])
         IN  /\ clocks' = [clocks EXCEPT ![to] = bvv]
             /\ storage' = [storage EXCEPT
                                ![to] = Put(@, m.key, DccStrip(synced, bvv))]
             /\ UNCHANGED log
             /\ hist' = [hist EXCEPT !.writes = @ + 1]
             /\ net' = Reply(from, to, <<[type |-> "SyncAck",
                                          cookie |-> m.cookie,
                                          seq |-> m.seq]>>)
    ELSE /\ net' = Reply(from, to, << >>)
         /\ UNCHANGED <<clocks, storage, log, hist>>

\* VNode::handler_sync_ack (design 4.3.4, the peer asked)
VnHandlerSyncAck(to, from, m) ==
    IF m.cookie \in DOMAIN syncs[to] /\ syncs[to][m.cookie].dir = "out"
    THEN LET r == SyncEmit(to, [syncs[to][m.cookie] EXCEPT
                                   !.inflight = @ - 1], << >>)
         IN  IF r.st.inflight = 0
             THEN /\ net' = Reply(from, to,
                                  <<[type |-> "SyncFin", cookie |-> m.cookie,
                                     ok |-> TRUE,
                                     clock |-> ClockOf(clocks[to], r.st.target)]>>)
                  /\ syncs' = [syncs EXCEPT ![to] = Remove(@, m.cookie)]
             ELSE /\ net' = Reply(from, to, r.msgs)
                  /\ syncs' = [syncs EXCEPT ![to] = Put(@, m.cookie, r.st)]
    ELSE /\ net' = Reply(from, to, << >>)
         /\ UNCHANGED syncs

\* VNode::handler_sync_fin (design 4.3.4): on Ok the peer's clock of the
\* target actor is merged into the vnode's clocks
VnHandlerSyncFin(to, from, m) ==
    IF m.cookie \in DOMAIN syncs[to] /\ syncs[to][m.cookie].dir = "in"
    THEN /\ syncs' = [syncs EXCEPT ![to] = Remove(@, m.cookie)]
         /\ clocks' = IF m.ok
                      THEN [clocks EXCEPT ![to] =
                               BvvMerge(@, [i \in {syncs[to][m.cookie].target}
                                               |-> m.clock])]
                      ELSE clocks
         /\ hist' = IF m.ok /\ to = hist.wipe_node
                    THEN [hist EXCEPT !.synced = @ \cup
                                          {syncs[to][m.cookie].target}]
                    ELSE hist
    ELSE UNCHANGED <<syncs, clocks, hist>>

\* Database::handler_fabric_msg, the arms of the synchronization messages
RecvSyncStart(from, to) ==
    /\ Head1(from, to, "SyncStart")
    /\ VnHandlerSyncStart(to, from, Head(net[<<from, to>>]))
    /\ UNCHANGED <<ring, dhtq, status, clocks, storage, log, pending, migrations,
                   cookie_seq, reqs, hist>>
    /\ UNCHANGED algVars

RecvSyncSend(from, to) ==
    /\ Head1(from, to, "SyncSend")
    /\ VnHandlerSyncSend(to, from, Head(net[<<from, to>>]))
    /\ UNCHANGED <<ring, dhtq, status, pending, migrations, syncs, cookie_seq,
                   reqs>>
    /\ UNCHANGED algVars

RecvSyncAck(from, to) ==
    /\ Head1(from, to, "SyncAck")
    /\ VnHandlerSyncAck(to, from, Head(net[<<from, to>>]))
    /\ UNCHANGED <<ring, dhtq, status, clocks, storage, log, pending, migrations,
                   cookie_seq, reqs, hist>>
    /\ UNCHANGED algVars

RecvSyncFin(from, to) ==
    /\ Head1(from, to, "SyncFin")
    /\ VnHandlerSyncFin(to, from, Head(net[<<from, to>>]))
    /\ net' = Reply(from, to, << >>)
    /\ UNCHANGED <<ring, dhtq, status, storage, log, pending, migrations,
                   cookie_seq, reqs>>
    /\ UNCHANGED algVars

(***************************************************************************)
(* Two Ready nodes, one of which loses its disk                            *)
(* (tests::test_join_sync_reverse, tests::test_join_sync_normal).          *)
(***************************************************************************)
\* the writes go to node 1 before the disk loss of either node, as in the
\* tests
NextSync ==
    \/ \E k \in Keys :
           Len(reqs) < MaxOps /\ hist.wiped = 0 /\ DatabaseSet(1, k, VvNew)
    \/ \E n \in Nodes, k \in Keys :
           Len(reqs) < MaxOps /\ DatabaseGet(n, k)
    \/ \E p \in NodePairs : HandlerSetRemote(p[1], p[2])
    \/ \E p \in NodePairs : HandlerSetRemoteAck(p[1], p[2])
    \/ \E p \in NodePairs : HandlerGetRemote(p[1], p[2])
    \/ \E p \in NodePairs : HandlerGetRemoteAck(p[1], p[2])
    \/ \E n \in Nodes : hist.ticks < MaxTicks /\ HandlerTick(n)
    \/ \E n \in Nodes : Restart(n)
    \/ \E n \in Nodes : hist.wiped > 0 /\ StartSync(n, FALSE)
    \/ \E p \in NodePairs : RecvSyncStart(p[1], p[2])
    \/ \E p \in NodePairs : RecvSyncSend(p[1], p[2])
    \/ \E p \in NodePairs : RecvSyncAck(p[1], p[2])
    \/ \E p \in NodePairs : RecvSyncFin(p[1], p[2])

SpecSync == InitPair /\ [][NextSync]_vars

\* no synchronization is in flight on any node (syncs_inflight() = 0)
SyncsDrained == \A n \in Nodes : syncs[n] = << >>

\* C10: after a disk loss that found every SET completed, with no SET
\* since, the restarted node's synchronizations of both actors ended with
\* SyncFin(Ok) and none in flight, a GET answered at the restarted node,
\* issued with nothing in flight, returns for every key the values read
\* before the loss
C10_SyncRestores ==
    (/\ hist.wiped = 1 /\ hist.wipe_clean /\ hist.sets = hist.wipe_sets
     /\ hist.synced = Nodes /\ SyncsDrained) =>
        \A t \in Accepted :
            (/\ reqs[t].op = "get" /\ reqs[t].node = hist.wipe_node
             /\ t > hist.wipe_reqs /\ reqs[t].drained
             /\ reqs[t].responses # << >> /\ KindOf(t) = "ok")
            => DccValues(reqs[t].responses[1].dcc)
                   = hist.wipe_store[reqs[t].key]

(***************************************************************************)
(* The clocks: two BitmappedVersionVectors built from empty ones by add,   *)
(* event, merge, join and reset.                                           *)
(***************************************************************************)
\* the largest event number the clock checks reach
MaxEvent == 3

RECURSIVE BitLength(_)
BitLength(bitmap) == IF bitmap = 0 THEN 0 ELSE 1 + BitLength(bitmap \div 2)

\* the events a BitmappedVersion holds: the dense prefix up to base and the
\* set bits above it (the commented-out values())
BvValues(bv) ==
    (1..bv.base) \cup
    {bv.base + 1 + i : i \in {j \in 0..BitLength(bv.bitmap) : Bit(bv.bitmap, j)}}

BvvValues(bvv, id) == IF id \in DOMAIN bvv THEN BvValues(bvv[id]) ELSE {}

\* the largest event a BitmappedVersion holds
BvTop(bv) == bv.base + BitLength(bv.bitmap)

InitBvv ==
    /\ dx = DccNew /\ dy = DccNew /\ dz = DccNew
    /\ dres = NoRes
    /\ NoClk
    /\ DbIdle

\* the operand an operation is applied to, and the other one
Operand(side) == IF side = "a" THEN ba ELSE bb

Other(side) == IF side = "a" THEN bb ELSE ba

\* the operand of side becomes r1; r2 is the result with the operands swapped
\* where the operation has two, and r1 otherwise
Applied(side, op, r1, r2) ==
    /\ ba' = (IF side = "a" THEN r1 ELSE ba)
    /\ bb' = (IF side = "b" THEN r1 ELSE bb)
    /\ bres' = [op |-> op, r1 |-> r1, r2 |-> r2]
    /\ UNCHANGED <<dccVars, cmd, locks, pool, chan>>
    /\ UNCHANGED dbVars

\* bvv.add(id, version)
ApplyBvvAdd(side) ==
    \E id \in Ids, version \in 1..MaxEvent :
        LET r == BvvAdd(Operand(side), id, version)
        IN  Applied(side, "add", r, r)

\* bvv.event(id); with events above the base recorded the debug_assert!
\* stops a debug build, and a release build counts on
ApplyBvvEvent(side) ==
    \E id \in Ids :
        LET bvv == Operand(side)
            r == BvvEvent(bvv, id)
        IN  /\ id \in DOMAIN bvv => BvTop(bvv[id]) < MaxEvent
            /\ \/ Applied(side, "event", r, r)
               \/ /\ id \in DOMAIN bvv /\ bvv[id].bitmap # 0
                  /\ Applied(side, "event_panic", bvv, bvv)

\* self.merge(other)
ApplyBvvMerge(side) ==
    Applied(side, "merge", BvvMerge(Operand(side), Other(side)),
            BvvMerge(Other(side), Operand(side)))

\* self.join(other)
ApplyBvvJoin(side) ==
    Applied(side, "join", BvvJoin(Operand(side), Other(side)),
            BvvJoin(Other(side), Operand(side)))

\* bvv.reset()
ApplyBvvReset(side) ==
    LET r == BvvReset(Operand(side))
    IN  Applied(side, "reset", r, r)

NextBvv ==
    \/ \E side \in {"a", "b"} : ApplyBvvAdd(side)
    \/ \E side \in {"a", "b"} : ApplyBvvEvent(side)
    \/ \E side \in {"a", "b"} : ApplyBvvMerge(side)
    \/ \E side \in {"a", "b"} : ApplyBvvJoin(side)
    \/ \E side \in {"a", "b"} : ApplyBvvReset(side)

SpecBvv == InitBvv /\ [][NextBvv]_vars

(***************************************************************************)
(* Claims about the clocks, checked under SpecBvv.                         *)
(***************************************************************************)
\* C17: starting from empty vectors, after any sequence of add, event,
\* merge, join and reset, bit 0 of every actor's bitmap is 0: the base
\* covers the whole dense prefix of the recorded events.
C17_Normalized ==
    \A v \in {ba, bb, bres.r1, bres.r2} :
        \A i \in DOMAIN v :
            /\ ~Bit(v[i].bitmap, 0)
            /\ v[i].base + 1 \notin BvValues(v[i])

\* an add has closed a gap: the base moved over an event recorded earlier,
\* and another actor still has a gap
C17_Witness ==
    /\ bres.op = "add"
    /\ \E i \in DOMAIN ba : ba[i].base = MaxEvent
    /\ \E i \in DOMAIN ba : ba[i].bitmap # 0

\* C18 as stated: a.join(b) and b.join(a) are equal for all vectors, also
\* those with different actor sets.
C18_JoinCommutative ==
    bres.op = "join" => bres.r1 = bres.r2

\* C18, amended: a.join(b) and b.join(a) are equal for all vectors with the
\* same actor set (join keeps the receiver's actors and no others).
C18_JoinCommutativeSameActors ==
    /\ (bres.op = "join" /\ DOMAIN bres.r1 = DOMAIN bres.r2) =>
           bres.r1 = bres.r2
    /\ DOMAIN ba = DOMAIN bb => BvvJoin(ba, bb) = BvvJoin(bb, ba)

\* a join of vectors over both actors whose entries differed in base and
\* in gaps
C18_Witness ==
    /\ bres.op = "join"
    /\ DOMAIN bres.r1 = Ids /\ DOMAIN bres.r2 = Ids
    /\ \E i \in Ids : bres.r1[i].bitmap # 0
    /\ ba # bb

\* C19: merge(a, b) holds, for every actor of a or b, exactly the union of
\* the events of both sides, an actor of one side keeps that side's set, and
\* merge is commutative.
C19_MergeIsUnion ==
    LET m == BvvMerge(ba, bb)
    IN  /\ DOMAIN m = DOMAIN ba \cup DOMAIN bb
        /\ \A i \in Ids : BvvValues(m, i) = BvvValues(ba, i) \cup BvvValues(bb, i)
        /\ \A i \in DOMAIN ba \ DOMAIN bb : m[i] = ba[i]
        /\ \A i \in DOMAIN bb \ DOMAIN ba : m[i] = bb[i]
        /\ m = BvvMerge(bb, ba)
        /\ bres.op = "merge" => bres.r1 = bres.r2

\* a merge has brought in an actor and filled a gap
C19_Witness ==
    /\ bres.op = "merge"
    /\ DOMAIN ba # DOMAIN bb
    /\ \E i \in DOMAIN bres.r1 : bres.r1[i].base > 1
    /\ \E i \in DOMAIN bres.r1 : bres.r1[i].bitmap # 0

(***************************************************************************)
(* strip and fill: a container and a clock drawn from bounded sets, the    *)
(* container is stripped and then filled with the clock.                   *)
(***************************************************************************)
\* the normalized BitmappedVersions of the strip and fill checks: a base up
\* to MaxVersion, and no gap or one
BvInputs == {BitmappedVersionNew(base, bitmap) : base \in 0..MaxVersion,
                                                 bitmap \in {0, 2}}

BvvInputs == PartialMaps(Ids, BvInputs)

InitStrip ==
    /\ dx \in DccInputs
    /\ dy = DccNew /\ dz = DccNew
    /\ dres = NoRes
    /\ ba \in BvvInputs
    /\ bb = BvvNew
    /\ bres = NoBres
    /\ cmd = NoCmd
    /\ NoSys
    /\ DbIdle

\* d'.strip(bvv); d'.fill(bvv) on a clone d' of d
ApplyStripFill ==
    /\ dres.op = "none"
    /\ dres' = [op |-> "strip_fill", r1 |-> DccFill(DccStrip(dx, ba), ba),
                r2 |-> DccStrip(dx, ba)]
    /\ UNCHANGED <<dx, dy, dz, ba, bb, bres, cmd, locks, pool, chan>>
    /\ UNCHANGED dbVars

NextStrip == ApplyStripFill

SpecStrip == InitStrip /\ [][NextStrip]_vars

\* every dot of d is above the base bvv has for the dot's actor
DotsAbove(d, bvv) == \A dot \in DOMAIN d.dots : dot[2] > BvvBase(bvv, dot[1])

\* C16 as stated: for a container d whose dots are all above bvv, strip and
\* then fill with bvv gives a container with d's version vector entry for
\* every actor of bvv (an absent entry reads as 0), and with d's dots.
C16_StripFillRoundTrip ==
    (dres.op = "strip_fill" /\ DotsAbove(dx, ba)) =>
        /\ \A i \in DOMAIN ba : VvGet(dres.r1.vv, i) = VvGet(dx.vv, i)
        /\ dres.r1.dots = dx.dots

\* C16, amended: for a container d whose dots are all above bvv and whose
\* version vector is, for every actor of bvv, not below the base of bvv (as
\* after d.fill(bvv)), strip and then fill with bvv gives a container with
\* d's version vector entry for every actor of bvv, and with d's dots.
C16_StripFillRoundTripFilled ==
    (/\ dres.op = "strip_fill"
     /\ DotsAbove(dx, ba)
     /\ \A i \in DOMAIN ba : VvGet(dx.vv, i) >= ba[i].base) =>
        /\ \A i \in DOMAIN ba : VvGet(dres.r1.vv, i) = VvGet(dx.vv, i)
        /\ dres.r1.dots = dx.dots

\* a container with a dot above the clock, one entry that strip removes and
\* fill restores, and one entry that strip keeps
C16_Witness ==
    /\ dres.op = "strip_fill"
    /\ DotsAbove(dx, ba) /\ dx.dots # << >>
    /\ DOMAIN ba = Ids
    /\ \A i \in DOMAIN ba : i \in DOMAIN dx.vv /\ dx.vv[i] >= ba[i].base
    /\ \E i \in Ids : i \notin DOMAIN dres.r2.vv /\ ba[i].base > 0
    /\ \E i \in Ids : i \in DOMAIN dres.r2.vv /\ ba[i].base > 0

(***************************************************************************)
(* The command handler (commands.rs): a RESP value drawn from bounded sets *)
(* is handed to handler_cmd; cmd.calls are the calls of Database::get and  *)
(* Database::set it makes, in order.                                       *)
(***************************************************************************)
\* the number of elements of a command array
MaxArgs == 4
\* the length of the args array of handler_cmd
ArgsCap == 32

Words == {"GET", "MGET", "SET", "MSET", "DEL", "MDEL", "CONFIG", "a", "b"}

\* the elements of a RESP array: RespValue::Data(bytes), and one that is not
\* Data
RespElems ==
    {[data |-> TRUE, bytes |-> w] : w \in Words} \cup
    {[data |-> FALSE, bytes |-> ""]}

\* RespValue::Array(a), the value a command arrives as
RespArrays == UNION {[1..n -> RespElems] : n \in 0..MaxArgs}

InitCmd ==
    /\ dx = DccNew /\ dy = DccNew /\ dz = DccNew
    /\ dres = NoRes
    /\ ba = BvvNew /\ bb = BvvNew
    /\ bres = NoBres
    /\ \E token \in 1..2, a \in RespArrays :
           cmd = [token |-> token, value |-> a, calls |-> << >>,
                  state |-> "queued"]
    /\ NoSys
    /\ DbIdle

\* args.chunks(n)
RECURSIVE Chunks(_, _)
Chunks(args, n) ==
    IF args = << >> THEN << >>
    ELSE IF Len(args) <= n THEN <<args>>
    ELSE <<SubSeq(args, 1, n)>> \o Chunks(SubSeq(args, n + 1, Len(args)), n)

GetCall(token, key) == [fn |-> "get", token |-> token, key |-> key]

SetCall(token, key, value_opt, vv) ==
    [fn |-> "set", token |-> token, key |-> key, value |-> value_opt, vv |-> vv]

\* cmd_get: self.get(token, key) for key in args
CmdGet(token, args) ==
    [calls |-> [i \in 1..Len(args) |-> GetCall(token, args[i])],
     state |-> "done"]

\* cmd_set: self.set(token, w[0], Some(w[1]), VersionVector::new()) for every
\* chunk of three; w[1] of a chunk of one is out of bounds and panics after
\* the calls of the chunks before it
CmdSet(token, args) ==
    LET ch == Chunks(args, 3)
        short == {i \in 1..Len(ch) : Len(ch[i]) < 2}
        n == IF short = {} THEN Len(ch) ELSE MinOf(short) - 1
    IN  [calls |-> [i \in 1..n |->
                       SetCall(token, ch[i][1], <<ch[i][2]>>, VvNew)],
         state |-> IF short = {} THEN "done" ELSE "panicked"]

\* cmd_del: self.set(token, w[0], None, VersionVector::new()) for every chunk
\* of two
CmdDel(token, args) ==
    LET ch == Chunks(args, 2)
    IN  [calls |-> [i \in 1..Len(ch) |-> SetCall(token, ch[i][1], << >>, VvNew)],
         state |-> "done"]

\* Database::handler_cmd: the array's Data elements become args, args[0]
\* selects the command; anything else is unimplemented!()
HandlerCmd ==
    /\ cmd.state = "queued"
    /\ LET a == cmd.value
           panic == [calls |-> << >>, state |-> "panicked"]
           args == [i \in 1..Len(a) |-> a[i].bytes]
           r == IF ~(Len(a) > 0 /\ Len(a) <= ArgsCap) THEN panic
                ELSE IF \E i \in 1..Len(a) : ~a[i].data THEN panic
                ELSE IF args[1] \in {"GET", "MGET"} THEN CmdGet(cmd.token, args)
                ELSE IF args[1] \in {"SET", "MSET"} THEN CmdSet(cmd.token, args)
                ELSE IF args[1] \in {"DEL", "MDEL"} THEN CmdDel(cmd.token, args)
                ELSE panic
       IN  cmd' = [cmd EXCEPT !.calls = r.calls, !.state = r.state]
    /\ UNCHANGED <<dccVars, bvvVars, locks, pool, chan>>
    /\ UNCHANGED dbVars

NextCmd == HandlerCmd

SpecCmd == InitCmd /\ [][NextCmd]_vars

\* the bytes of the elements of the command
ArgsOf(a) == [i \in 1..Len(a) |-> a[i].bytes]

\* C20: for [GET, k] or [MGET, k1, ..., kn], handler_cmd issues exactly one
\* Database.get per key argument, in argument order, and none for the verb.
C20_OneGetPerKey ==
    (/\ cmd.state # "queued"
     /\ Len(cmd.value) >= 2
     /\ \A i \in 1..Len(cmd.value) : cmd.value[i].data
     /\ \/ cmd.value[1].bytes = "GET" /\ Len(cmd.value) = 2
        \/ cmd.value[1].bytes = "MGET") =>
        cmd.calls = [i \in 1..(Len(cmd.value) - 1) |->
                        GetCall(cmd.token, ArgsOf(cmd.value)[i + 1])]

(***************************************************************************)
(* Membership changes: the cluster that a second node joins, where the     *)
(* ring may also take a node out of the replica set.                       *)
(***************************************************************************)
\* the number of revocations
MaxRevokes == 2
\* the number of client requests issued while the membership changes
MaxMemberOps == 1
\* the keys of these requests
MemberKeys == {1}

\* the ring takes the node out of the replica set of the partition (design
\* 4.3, revoked) and every node's Database is told of the change
Revoke(n) ==
    /\ n \in ring.owners \cup ring.pending
    /\ hist.revokes < MaxRevokes
    /\ ring' = [owners |-> ring.owners \ {n}, pending |-> ring.pending \ {n}]
    /\ dhtq' = [m \in Nodes |-> 1]
    /\ hist' = [hist EXCEPT !.revokes = @ + 1]
    /\ UNCHANGED <<nodeVars, net, reqs>>
    /\ UNCHANGED algVars

NextMember ==
    \/ \E n \in Nodes, k \in MemberKeys : \E ctx \in Contexts(k) :
           Len(reqs) < MaxMemberOps /\ DatabaseSet(n, k, ctx)
    \/ \E n \in Nodes, k \in MemberKeys :
           Len(reqs) < MaxMemberOps /\ DatabaseGet(n, k)
    \/ \E p \in NodePairs : HandlerSetRemote(p[1], p[2])
    \/ \E p \in NodePairs : HandlerSetRemoteAck(p[1], p[2])
    \/ \E p \in NodePairs : HandlerGetRemote(p[1], p[2])
    \/ \E p \in NodePairs : HandlerGetRemoteAck(p[1], p[2])
    \/ \E p \in NodePairs : RecvBootstrapStart(p[1], p[2])
    \/ \E p \in NodePairs : RecvBootstrapSend(p[1], p[2])
    \/ \E p \in NodePairs : RecvBootstrapAck(p[1], p[2])
    \/ \E p \in NodePairs : RecvBootstrapFin(p[1], p[2])
    \/ \E n \in Nodes : hist.ticks < MaxTicks /\ HandlerTick(n)
    \/ \E n \in Nodes : HandlerDhtChange(n)
    \/ \E n \in Nodes : Claim(n)
    \/ \E n \in Nodes : Revoke(n)
    \/ \E n \in Nodes : StartSync(n, FALSE)
    \/ \E p \in NodePairs : RecvSyncStart(p[1], p[2])
    \/ \E p \in NodePairs : RecvSyncSend(p[1], p[2])
    \/ \E p \in NodePairs : RecvSyncAck(p[1], p[2])
    \/ \E p \in NodePairs : RecvSyncFin(p[1], p[2])

SpecMember == Init /\ [][NextMember]_vars

(***************************************************************************)
(* Claims about the vnode's status, checked under SpecMember.              *)
(***************************************************************************)
\* the step hands the vnode of n the BootstrapFin at the head of a channel
TakesBootstrapFin(n, ok) ==
    \E from \in Nodes \ {n} :
        /\ Head1(from, n, "BootstrapFin")
        /\ Head(net[<<from, n>>]).ok = ok
        /\ net'[<<from, n>>] = Tail(net[<<from, n>>])

\* C11: a vnode is Ready at construction only when its node owns the
\* partition; afterwards it becomes Ready only from Bootstrap, in the step
\* that processes BootstrapFin(Ok); BootstrapFin(Err) leaves it in Bootstrap;
\* no step moves it from Absent to Ready; and the DHT-change handler of a
\* node that is not in the replica set leaves its vnode Absent.
C11_ReadyOnlyByBootstrapFin ==
    /\ \A n \in Nodes : status[n] = "Ready" => n \in ring.owners
    /\ [][\A n \in Nodes :
            /\ (status'[n] = "Ready" /\ status[n] # "Ready") =>
                   status[n] = "Bootstrap" /\ TakesBootstrapFin(n, TRUE)
            /\ (status[n] = "Bootstrap" /\ TakesBootstrapFin(n, FALSE)) =>
                   status'[n] = "Bootstrap"
            /\ (dhtq[n] > 0 /\ dhtq'[n] < dhtq[n]
                    /\ n \notin NodesForVnode(TRUE)) =>
                   status'[n] = "Absent"]_vars

\* node 2 went from Absent through Bootstrap to Ready by a finished handoff,
\* and node 1, taken out of the replica set, was told and is Absent
C11_Witness ==
    /\ status[2] = "Ready" /\ 2 \in ring.owners
    /\ \E c \in DOMAIN hist.handoff : hist.handoff[c].fin
    /\ hist.revokes > 0
    /\ 1 \notin NodesForVnode(TRUE) /\ dhtq[1] = 0 /\ status[1] = "Absent"

\* C12 as stated: a vnode in status Absent has no pending coordination, no
\* migration and no synchronization, and every client whose request a
\* membership change cancelled has one response, an error.
C12_AbsentHasNoInflight ==
    /\ \A n \in Nodes :
           status[n] = "Absent" =>
               pending[n] = << >> /\ migrations[n] = << >> /\ syncs[n] = << >>
    /\ \A t \in hist.cancelled :
           /\ Len(reqs[t].responses) = 1
           /\ reqs[t].responses[1].kind # "ok"

\* C12, amended: the step that takes a vnode to Absent removes all its
\* pending coordinations, migrations and synchronizations, and every client
\* whose request was cancelled this way has one response, an error; a vnode
\* in status Absent holds no coordination, no synchronization and no
\* incoming handoff, but it may hold the outgoing handoff of a
\* BootstrapStart it served after the revocation.
C12_AbsentCancelsInflight ==
    [][/\ \A n \in Nodes :
            status'[n] = "Absent" =>
                /\ pending'[n] = << >> /\ syncs'[n] = << >>
                /\ \A c \in DOMAIN migrations'[n] :
                       migrations'[n][c].dir = "out"
                /\ status[n] # "Absent" => migrations'[n] = << >>
       /\ \A t \in hist'.cancelled :
            /\ Len(reqs'[t].responses) = 1
            /\ reqs'[t].responses[1].kind # "ok"]_vars

\* a revocation cancelled a client's request, and another took a vnode with
\* a handoff or a synchronization in flight to Absent
C12_Witness ==
    /\ hist.cancelled # {}
    /\ \E n \in Nodes : status[n] = "Absent" /\ dhtq[n] = 0
                            /\ n \notin NodesForVnode(TRUE)
                            /\ \E c \in DOMAIN hist.handoff : c[1] = n

(***************************************************************************)
(* Deadlines: the cluster that a second node joins, with client requests,  *)
(* the handoff and synchronizations, where every node's ticker keeps       *)
(* posting Ticks (WorkerManager::start) and the fabric may deliver nothing. *)
(***************************************************************************)
\* the number of client requests issued while deadlines are watched
MaxLiveOps == 1

NextLive ==
    \/ \E n \in Nodes, k \in MemberKeys : \E ctx \in Contexts(k) :
           Len(reqs) < MaxLiveOps /\ DatabaseSet(n, k, ctx)
    \/ \E n \in Nodes, k \in MemberKeys :
           Len(reqs) < MaxLiveOps /\ DatabaseGet(n, k)
    \/ \E p \in NodePairs : HandlerSetRemote(p[1], p[2])
    \/ \E p \in NodePairs : HandlerSetRemoteAck(p[1], p[2])
    \/ \E p \in NodePairs : HandlerGetRemote(p[1], p[2])
    \/ \E p \in NodePairs : HandlerGetRemoteAck(p[1], p[2])
    \/ \E p \in NodePairs : RecvBootstrapStart(p[1], p[2])
    \/ \E p \in NodePairs : RecvBootstrapSend(p[1], p[2])
    \/ \E p \in NodePairs : RecvBootstrapAck(p[1], p[2])
    \/ \E p \in NodePairs : RecvBootstrapFin(p[1], p[2])
    \/ \E n \in Nodes : HandlerTick(n)
    \/ \E n \in Nodes : HandlerDhtChange(n)
    \/ \E n \in Nodes : Claim(n)
    \/ \E n \in Nodes : StartSync(n, FALSE)
    \/ \E p \in NodePairs : RecvSyncStart(p[1], p[2])
    \/ \E p \in NodePairs : RecvSyncSend(p[1], p[2])
    \/ \E p \in NodePairs : RecvSyncAck(p[1], p[2])
    \/ \E p \in NodePairs : RecvSyncFin(p[1], p[2])

\* the ticker thread of every node posts a Tick each interval, and the
\* worker takes it from its queue
SpecLive ==
    /\ Init
    /\ [][NextLive]_vars
    /\ \A n \in Nodes : WF_vars(HandlerTick(n))

\* the vnode of n holds a coordinator, handoff or synchronization state
Inflight(n) ==
    pending[n] # << >> \/ migrations[n] # << >> \/ syncs[n] # << >>

\* C13: while Ticks keep being delivered, every pending coordinator, handoff
\* and synchronization state is eventually retired and every waiting client
\* eventually has its response, whether or not a reply arrives.
C13_EventuallyRetired ==
    /\ \A n \in Nodes : Inflight(n) ~> ~Inflight(n)
    /\ (Outstanding > 0) ~> (Outstanding = 0)
    /\ [][\A n \in Nodes : HandlerTick(n) =>
              /\ \A c \in Expired(pending[n]) :
                     /\ c \notin DOMAIN pending'[n]
                     /\ \E i \in DOMAIN reqs'[pending[n][c].token].responses :
                            reqs'[pending[n][c].token].responses[i].kind
                                = "timeout"
              /\ \A c \in Expired(migrations[n]) :
                     c \notin DOMAIN migrations'[n]
              /\ \A c \in Expired(syncs[n]) : c \notin DOMAIN syncs'[n]]_vars

\* a coordinator's deadline passed with its replica's answer still in the
\* fabric, and the client was told of the timeout; the vnode holds nothing
C13_Witness ==
    /\ \E t \in DOMAIN reqs :
           /\ reqs[t].accepted /\ reqs[t].responses # << >>
           /\ reqs[t].responses[1].kind = "timeout"
           /\ ~Inflight(reqs[t].node)
    /\ \E p \in NodePairs : net[p] # << >>
    /\ hist.starts > 0

(***************************************************************************)
(* DEL: two Ready replicas of one key, with SET, GET and DEL issued at     *)
(* either node.                                                            *)
(***************************************************************************)
\* the number of client requests issued
MaxDelOps == 4

NextDel ==
    \/ \E n \in Nodes, k \in MemberKeys : \E ctx \in Contexts(k) :
           Len(reqs) < MaxDelOps /\ DatabaseSet(n, k, ctx)
    \/ \E n \in Nodes, k \in MemberKeys : \E ctx \in Contexts(k) :
           Len(reqs) < MaxDelOps /\ DatabaseDel(n, k, ctx)
    \/ \E n \in Nodes, k \in MemberKeys :
           Len(reqs) < MaxDelOps /\ DatabaseGet(n, k)
    \/ \E p \in NodePairs : HandlerSetRemote(p[1], p[2])
    \/ \E p \in NodePairs : HandlerSetRemoteAck(p[1], p[2])
    \/ \E p \in NodePairs : HandlerGetRemote(p[1], p[2])
    \/ \E p \in NodePairs : HandlerGetRemoteAck(p[1], p[2])
    \/ \E n \in Nodes : hist.ticks < MaxTicks /\ HandlerTick(n)

SpecDel == InitPair /\ [][NextDel]_vars

\* request t is a DEL the vnode accepted
IsDel(t) ==
    reqs[t].op = "set" /\ reqs[t].value = NoValue /\ reqs[t].accepted

\* request t answered Ok
AnsweredOk(t) ==
    reqs[t].responses # << >> /\ reqs[t].responses[1].kind = "ok"

\* the request before t is a read of the same key, made when every earlier
\* write had been acknowledged, and t carries the version vector it returned
FromLatestRead(t) ==
    /\ t > 1
    /\ reqs[t - 1].op = "get" /\ reqs[t - 1].key = reqs[t].key
    /\ reqs[t - 1].settled
    /\ AnsweredOk(t - 1)
    /\ reqs[t].ctx = reqs[t - 1].responses[1].dcc.vv

\* C14: a DEL whose context is the version vector the latest read returned
\* removes every sibling: the container its coordinator stores has no dots,
\* once it is acknowledged no replica stores a dot, and the GET that follows
\* returns an empty container.
C14_DelRemovesSiblings ==
    \A t \in DOMAIN reqs :
        (IsDel(t) /\ FromLatestRead(t)) =>
            /\ t = Len(reqs) => Load(reqs[t].node, reqs[t].key).dots = << >>
            /\ (t = Len(reqs) /\ AnsweredOk(t)) =>
                   \A n \in Nodes : Load(n, reqs[t].key).dots = << >>
            /\ (/\ AnsweredOk(t)
                /\ t + 1 \in DOMAIN reqs
                /\ reqs[t + 1].op = "get" /\ reqs[t + 1].key = reqs[t].key
                /\ AnsweredOk(t + 1)) =>
                   reqs[t + 1].responses[1].dcc.dots = << >>

(***************************************************************************)
(* Save and reopen: a node saves, drops its database and opens it again on *)
(* the same storage directory, as the only owner of the keys or as one of  *)
(* two replicas.                                                           *)
(***************************************************************************)
\* the number of times a database is saved and reopened
MaxReloads == 1
\* the number of client requests issued
MaxReloadOps == 4

InitReload ==
    /\ NoAlg
    /\ ring \in {[owners |-> {1}, pending |-> {}],
                 [owners |-> Nodes, pending |-> {}]}
    /\ dhtq = [n \in Nodes |-> 0]
    /\ status = [n \in Nodes |->
                    IF n \in ring.owners THEN "Ready" ELSE "Absent"]
    /\ clocks = [n \in Nodes |-> BvvNew]
    /\ storage = [n \in Nodes |-> << >>]
    /\ log = [n \in Nodes |-> << >>]
    /\ pending = [n \in Nodes |-> << >>]
    /\ migrations = [n \in Nodes |-> << >>]
    /\ syncs = [n \in Nodes |-> << >>]
    /\ cookie_seq = [n \in Nodes |-> 0]
    /\ net = [p \in NodePairs |-> << >>]
    /\ reqs = << >>
    /\ hist = NoHist

\* the values a GET of k returns when every replica answers: the
\* coordinator's filled container synced with each reply
ReadOwners(k) ==
    IF ring.owners = Nodes THEN ReadAll[k]
    ELSE LET n == CHOOSE m \in ring.owners : TRUE
         IN  DccValues(DccFill(Load(n, k), clocks[n]))

\* the total length of the vnodes' logs of dots
LogLen == Len(log[1]) + Len(log[2])

\* a plausible slip of the reopening: a dirty restart starts with an empty
\* log as well as empty clocks
ReloadEmptiesLog(n, shutdown) ==
    /\ hist.reloads < MaxReloads
    /\ Outstanding = 0
    /\ \A p \in NodePairs : net[p] = << >>
    /\ status[n] = "Ready"
    /\ clocks' = [clocks EXCEPT ![n] = IF shutdown THEN @ ELSE BvvNew]
    /\ log' = [log EXCEPT ![n] = IF shutdown THEN @ ELSE << >>]
    /\ pending' = [pending EXCEPT ![n] = << >>]
    /\ migrations' = [migrations EXCEPT ![n] = << >>]
    /\ syncs' = [syncs EXCEPT ![n] = << >>]
    /\ hist' = [hist EXCEPT
           !.reloads = @ + 1, !.reload_node = n, !.reload_clean = shutdown,
           !.lives[n] = @ + 1,
           !.dirty = IF shutdown THEN @ ELSE @ \cup {n},
           !.reload_reqs = Len(reqs),
           !.reload_sets = hist.sets, !.reload_log = LogLen,
           !.reload_store = [k \in Keys |-> ReadOwners(k)]]
    /\ cookie_seq' = [cookie_seq EXCEPT ![n] = 0]
    /\ UNCHANGED <<ring, dhtq, status, storage, net, reqs>>
    /\ UNCHANGED algVars

\* Database::save(shutdown), drop, Database::new(.., is_create = false): the
\* storage directory stays; the meta-storage holds the log and, after a
\* clean shutdown, the clocks; a dirty restart starts with empty clocks;
\* what was in flight in the process is gone and its cookie counter is that
\* of a new process
Reload(n, shutdown) ==
    /\ hist.reloads < MaxReloads
    /\ Outstanding = 0
    /\ \A p \in NodePairs : net[p] = << >>
    /\ status[n] = "Ready"
    /\ clocks' = [clocks EXCEPT ![n] = IF shutdown THEN @ ELSE BvvNew]
    /\ pending' = [pending EXCEPT ![n] = << >>]
    /\ migrations' = [migrations EXCEPT ![n] = << >>]
    /\ syncs' = [syncs EXCEPT ![n] = << >>]
    /\ hist' = [hist EXCEPT
           !.reloads = @ + 1, !.reload_node = n, !.reload_clean = shutdown,
           !.lives[n] = @ + 1,
           !.dirty = IF shutdown THEN @ ELSE @ \cup {n},
           !.reload_reqs = Len(reqs),
           !.reload_sets = hist.sets, !.reload_log = LogLen,
           !.reload_store = [k \in Keys |-> ReadOwners(k)]]
    /\ cookie_seq' = [cookie_seq EXCEPT ![n] = 0]
    /\ UNCHANGED <<ring, dhtq, status, storage, log, net, reqs>>
    /\ UNCHANGED algVars

\* the clients write and read, node 1 saves and reopens, the clients read
NextReload ==
    \/ \E n \in Nodes, k \in Keys : \E ctx \in Contexts(k) :
           /\ Len(reqs) < MaxReloadOps /\ hist.reloads = 0
           /\ DatabaseSet(n, k, ctx)
    \/ \E n \in Nodes, k \in Keys : \E ctx \in Contexts(k) :
           /\ Len(reqs) < MaxReloadOps /\ hist.reloads = 0
           /\ DatabaseDel(n, k, ctx)
    \/ \E n \in Nodes, k \in Keys :
           Len(reqs) < MaxReloadOps /\ DatabaseGet(n, k)
    \/ \E p \in NodePairs : HandlerSetRemote(p[1], p[2])
    \/ \E p \in NodePairs : HandlerSetRemoteAck(p[1], p[2])
    \/ \E p \in NodePairs : HandlerGetRemote(p[1], p[2])
    \/ \E p \in NodePairs : HandlerGetRemoteAck(p[1], p[2])
    \/ \E n \in Nodes : hist.ticks < MaxTicks /\ HandlerTick(n)
    \/ \E shutdown \in BOOLEAN : Reload(1, shutdown)

SpecReload == InitReload /\ [][NextReload]_vars

C21_OneSetPerTriple ==
    (/\ cmd.state # "queued"
     /\ Len(cmd.value) >= 2
     /\ \A i \in 1..Len(cmd.value) : cmd.value[i].data) =>
        LET args == ArgsOf(cmd.value)
            t3 == Chunks(Tail(args), 3)
            t2 == Chunks(Tail(args), 2)
            VvDecode(bytes) == IF bytes = "b" THEN <<1>> ELSE VvNew
        IN  /\ (/\ \/ args[1] = "SET" /\ Len(args) = 4
                   \/ args[1] = "MSET"
                /\ (Len(args) - 1) % 3 = 0) =>
                   cmd.calls = [i \in 1..Len(t3) |->
                                   SetCall(cmd.token, t3[i][1], <<t3[i][2]>>,
                                           VvDecode(t3[i][3]))]
            /\ (/\ \/ args[1] = "DEL" /\ Len(args) = 3
                   \/ args[1] = "MDEL"
                /\ (Len(args) - 1) % 2 = 0) =>
                   cmd.calls = [i \in 1..Len(t2) |->
                                   SetCall(cmd.token, t2[i][1], << >>,
                                           VvDecode(t2[i][2]))]

(***************************************************************************)
(* Cookies (under SpecSync: requests, a restart of a node, and the         *)
(* synchronizations it starts).                                            *)
(***************************************************************************)
\* the number of times the node of request t had restarted when t was made
Life(t) == reqs[t].life

\* the number of times node n has restarted
Lives(n) == hist.lives[n]

\* the cookies of the handoffs and synchronizations n has started and holds
StartedBy(n) ==
    {c \in DOMAIN migrations[n] : migrations[n][c].dir = "in"} \cup
    {c \in DOMAIN syncs[n] : syncs[n][c].dir = "in"}

Threads == {1, 2, 3}
\* the vnodes of the Database, in the order its handlers visit them
VNodes == {1, 2}

\* the handlers a thread runs, and whether one visits every vnode
WorkerOps == {"fabric", "tick", "dht_change"}
CallerOps == {"get", "set", "save", "migrations_inflight", "syncs_inflight",
              "start_migration", "start_sync"}
VisitsAll(op) ==
    op \in {"tick", "dht_change", "save", "migrations_inflight",
            "syncs_inflight"}

Resting == [op |-> "none", v |-> 0, at |-> "idle"]

InitLock ==
    /\ dx = DccNew /\ dy = DccNew /\ dz = DccNew
    /\ dres = NoRes
    /\ ba = BvvNew /\ bb = BvvNew
    /\ bres = NoBres
    /\ cmd = NoCmd
    /\ pool = [state |-> "none"]
    /\ chan = NoChan
    /\ locks = [state |-> "run",
                pc |-> [t \in Threads |-> Resting],
                readers |-> {}, writer |-> "none",
                mutex |-> [v \in VNodes |-> 0],
                inside |-> [v \in VNodes |-> {}]]
    /\ DbIdle

\* a handler starts: self.vnodes.read().unwrap(), and the vnode it is for
\* (vnode!) or the first of the iteration
Enter(t) ==
    /\ locks.state = "run"
    /\ locks.pc[t].at = "idle"
    /\ \E op \in (IF t = 1 THEN WorkerOps ELSE CallerOps), v \in VNodes :
           /\ VisitsAll(op) => v = 1
           /\ locks' = [locks EXCEPT
                  !.pc[t] = [op |-> op, v |-> v, at |-> "lock"],
                  !.readers = @ \cup {t}]
    /\ UNCHANGED <<dccVars, bvvVars, cmd, pool, chan>>
    /\ UNCHANGED dbVars

\* a plausible slip: the vnode is reached without waiting for its mutex
LockVNodeUnguarded(t) ==
    /\ locks.pc[t].at = "lock"
    /\ LET v == locks.pc[t].v
       IN  locks' = [locks EXCEPT
               !.pc[t].at = "vnode", !.mutex[v] = t,
               !.inside[v] = @ \cup {t}]
    /\ UNCHANGED <<dccVars, bvvVars, cmd, pool, chan>>
    /\ UNCHANGED dbVars

\* vn.lock().unwrap(): the thread waits until the mutex is free, takes it
\* and runs the vnode's method through the guard
LockVNode(t) ==
    /\ locks.pc[t].at = "lock"
    /\ LET v == locks.pc[t].v
       IN  /\ locks.mutex[v] = 0
           /\ locks' = [locks EXCEPT
                  !.pc[t].at = "vnode", !.mutex[v] = t,
                  !.inside[v] = @ \cup {t}]
    /\ UNCHANGED <<dccVars, bvvVars, cmd, pool, chan>>
    /\ UNCHANGED dbVars

\* a plausible slip: the iteration keeps the guard of the vnode it leaves
LeaveKeepsGuard(t) ==
    /\ locks.pc[t].at = "vnode"
    /\ LET v == locks.pc[t].v
           more == VisitsAll(locks.pc[t].op) /\ v + 1 \in VNodes
       IN  locks' = [locks EXCEPT
               !.mutex[v] = IF more THEN @ ELSE 0,
               !.inside[v] = @ \ {t},
               !.pc[t] = IF more THEN [@ EXCEPT !.v = v + 1, !.at = "lock"]
                         ELSE Resting,
               !.readers = IF more THEN @ ELSE @ \ {t}]
    /\ UNCHANGED <<dccVars, bvvVars, cmd, pool, chan>>
    /\ UNCHANGED dbVars

\* the vnode's method returns and the guard is dropped; an iteration goes on
\* to the next vnode, otherwise the read lock is released
Leave(t) ==
    /\ locks.pc[t].at = "vnode"
    /\ LET v == locks.pc[t].v
           more == VisitsAll(locks.pc[t].op) /\ v + 1 \in VNodes
       IN  locks' = [locks EXCEPT
               !.mutex[v] = 0,
               !.inside[v] = @ \ {t},
               !.pc[t] = IF more THEN [@ EXCEPT !.v = v + 1, !.at = "lock"]
                         ELSE Resting,
               !.readers = IF more THEN @ ELSE @ \ {t}]
    /\ UNCHANGED <<dccVars, bvvVars, cmd, pool, chan>>
    /\ UNCHANGED dbVars

\* Drop for Database, run when no thread is left that holds the Database:
\* the write lock is taken and the vnodes are cleared
DropDatabase ==
    /\ locks.state = "run"
    /\ \A t \in Threads : locks.pc[t].at = "idle"
    /\ locks.readers = {}
    /\ locks' = [locks EXCEPT !.state = "dropped", !.writer = "drop"]
    /\ UNCHANGED <<dccVars, bvvVars, cmd, pool, chan>>
    /\ UNCHANGED dbVars

NextLock ==
    \/ \E t \in Threads : Enter(t)
    \/ \E t \in Threads : LockVNode(t)
    \/ \E t \in Threads : Leave(t)
    \/ DropDatabase

SpecLock == InitLock /\ [][NextLock]_vars

\* C23: operations on one vnode never overlap: a thread is inside a vnode
\* only while it holds that vnode's mutex, so no two threads are inside one
\* vnode together, whatever handlers they run.
C23_VNodeSerialized ==
    \A v \in VNodes :
        /\ Cardinality(locks.inside[v]) <= 1
        /\ \A t \in locks.inside[v] :
               /\ locks.mutex[v] = t
               /\ t \in locks.readers
               /\ locks.pc[t].v = v /\ locks.pc[t].at = "vnode"

\* the worker is inside one vnode in its tick while a caller is inside the
\* other in a set, and a third thread waits for a mutex
C23_Witness ==
    /\ locks.pc[1].op = "tick" /\ locks.pc[1].at = "vnode"
    /\ \E t \in Threads \ {1} :
           /\ locks.pc[t].op = "set" /\ locks.pc[t].at = "vnode"
           /\ locks.pc[t].v # locks.pc[1].v
    /\ \E t \in Threads : locks.pc[t].at = "lock"

(***************************************************************************)
(* The worker pool: one WorkerManager with its workers, their queues, the  *)
(* ticker, the senders of the ticker and of the DHT callback, and the      *)
(* Database the workers serve, up to its release.                          *)
(***************************************************************************)
MaxWorkers == 3
\* the width of a sender's cursor (usize in the code, scaled down)
CursorBits == 2
CursorMod == 2 ^ CursorBits
\* messages sent through the senders in one run
MaxPoolSends == 4

Senders == {"ticker", "dht"}

PoolWorkers == 1..pool.T

\* a worker's upgrade of its weak handle succeeds while the owner or a worker
\* inside a handler holds the Database
Strong(p) == p.alive \/ \E i \in 1..p.T : p.worker[i] = "handler"

\* the messages of a queue ahead of its first Exit
RECURSIVE AheadOfExit(_)
AheadOfExit(q) ==
    IF q = << >> \/ Head(q) = "Exit" THEN 0 ELSE 1 + AheadOfExit(Tail(q))

\* WorkerSender::try_send: advance the cursor, wrapping at its width, and
\* send to the channel it selects; a send to a worker that returned fails and
\* the failure is ignored
TrySend(p, s, msg) ==
    LET c == (p.cursor[s] + 1) % CursorMod
        w == (c % p.T) + 1
    IN  [p EXCEPT !.cursor[s] = c,
                  !.sent[s] = @ + 1,
                  !.last[s] = w,
                  !.queue[w] = IF p.worker[w] = "exited" THEN @
                               ELSE Append(@, msg)]

\* Drop for WorkerManager up to its first join: Exit to every channel and
\* the signal to the ticker
DropBegin(p, by) ==
    [p EXCEPT !.drop = "join_ticker",
              !.dropper = by,
              !.ticker_chan = TRUE,
              !.queue = [i \in 1..p.T |->
                            IF p.worker[i] = "exited" THEN p.queue[i]
                            ELSE Append(p.queue[i], "Exit")]]

InitPool ==
    /\ dx = DccNew /\ dy = DccNew /\ dz = DccNew
    /\ dres = NoRes
    /\ ba = BvvNew /\ bb = BvvNew
    /\ bres = NoBres
    /\ cmd = NoCmd
    /\ locks = [state |-> "none"]
    /\ chan = NoChan
    /\ \E T \in 1..MaxWorkers, ct \in 0..(CursorMod - 1),
          cd \in 0..(CursorMod - 1) :
           pool = [state |-> "run", T |-> T,
                   queue |-> [i \in 1..T |-> << >>],
                   worker |-> [i \in 1..T |-> "recv"],
                   current |-> [i \in 1..T |-> "none"],
                   skipped |-> [i \in 1..T |-> 0],
                   ticker |-> "sleep", ticker_chan |-> FALSE,
                   cursor |-> [s \in Senders |->
                                  IF s = "ticker" THEN ct ELSE cd],
                   sent |-> [s \in Senders |-> 0],
                   last |-> [s \in Senders |-> 0],
                   alive |-> TRUE, drop |-> "none", dropper |-> 0,
                   notified |-> 0, executed |-> 0,
                   reconciled |-> [v \in VNodes |-> 0]]
    /\ DbIdle

PoolFrame ==
    /\ UNCHANGED <<dccVars, bvvVars, cmd, locks, chan>>
    /\ UNCHANGED dbVars

\* the DHT reports a change: the callback of Database::new sends DHTChange
DhtCallback ==
    /\ pool.drop = "none"
    /\ pool.sent["ticker"] + pool.sent["dht"] < MaxPoolSends
    /\ pool' = [TrySend(pool, "dht", "DHTChange") EXCEPT !.notified = @ + 1]
    /\ PoolFrame

\* one round of the ticker thread after its sleep
TickerRound ==
    /\ pool.ticker = "sleep"
    /\ IF pool.ticker_chan
       THEN pool' = [pool EXCEPT !.ticker = "exited"]
       ELSE /\ pool.sent["ticker"] + pool.sent["dht"] < MaxPoolSends
            /\ pool' = TrySend(pool, "ticker", "Tick")
    /\ PoolFrame

\* the worker loop takes its next message: without a Database to upgrade to
\* it breaks, whatever the message; Exit breaks; any other message is handed
\* to its handler
WorkerRecv(i) ==
    /\ pool.worker[i] = "recv"
    /\ pool.queue[i] # << >>
    /\ LET msg == Head(pool.queue[i])
       IN  IF ~Strong(pool)
           THEN pool' = [pool EXCEPT
                    !.worker[i] = "exited",
                    !.skipped[i] = AheadOfExit(pool.queue[i]),
                    !.queue[i] = << >>]
           ELSE IF msg = "Exit"
           THEN pool' = [pool EXCEPT
                    !.worker[i] = "exited", !.queue[i] = << >>]
           ELSE pool' = [pool EXCEPT
                    !.worker[i] = "handler", !.current[i] = msg,
                    !.queue[i] = Tail(@)]
    /\ PoolFrame

\* the handler returns and the worker lets go of the Database; when it was
\* the last to hold it, the Database and its WorkerManager are dropped here
WorkerDone(i) ==
    /\ pool.worker[i] = "handler"
    /\ LET dht == pool.current[i] = "DHTChange"
           p == [pool EXCEPT
                    !.current[i] = "none",
                    !.executed = IF dht THEN @ + 1 ELSE @,
                    !.reconciled = IF dht THEN [v \in VNodes |-> @[v] + 1]
                                   ELSE @]
           lastRef == ~pool.alive
                      /\ \A j \in PoolWorkers \ {i} :
                             pool.worker[j] # "handler"
       IN  pool' = IF lastRef
                   THEN DropBegin([p EXCEPT !.worker[i] = "dropping"], i)
                   ELSE [p EXCEPT !.worker[i] = "recv"]
    /\ PoolFrame

\* the owner lets go of the Database; when no worker holds it, the Database
\* and its WorkerManager are dropped by the owner
Release ==
    /\ pool.alive
    /\ LET p == [pool EXCEPT !.alive = FALSE]
       IN  pool' = IF Strong(p) THEN p ELSE DropBegin(p, 0)
    /\ PoolFrame

\* the drop joins the ticker thread
JoinTicker ==
    /\ pool.drop = "join_ticker"
    /\ pool.ticker = "exited"
    /\ pool' = [pool EXCEPT !.drop = "join_workers"]
    /\ PoolFrame

\* the drop joins the worker threads in their order; a worker that runs the
\* drop comes to join itself, which the build either blocks for ever or
\* ends with a panic of that thread
JoinWorkers ==
    /\ pool.drop = "join_workers"
    /\ IF pool.dropper = 0
       THEN /\ \A i \in PoolWorkers : pool.worker[i] = "exited"
            /\ pool' = [pool EXCEPT !.drop = "returned"]
       ELSE /\ \A i \in 1..(pool.dropper - 1) : pool.worker[i] = "exited"
            /\ \/ pool' = [pool EXCEPT !.drop = "blocked"]
               \/ pool' = [pool EXCEPT
                      !.drop = "panicked",
                      !.worker[pool.dropper] = "exited",
                      !.skipped[pool.dropper] =
                          AheadOfExit(pool.queue[pool.dropper]),
                      !.queue[pool.dropper] = << >>]
    /\ PoolFrame

NextPool ==
    \/ DhtCallback
    \/ TickerRound
    \/ \E i \in PoolWorkers : WorkerRecv(i)
    \/ \E i \in PoolWorkers : WorkerDone(i)
    \/ Release
    \/ JoinTicker
    \/ JoinWorkers

SpecPool == InitPool /\ [][NextPool]_vars

\* C24: once the pool shuts down, Exit has been sent to every worker, a
\* worker that terminated has handled every message that was queued ahead of
\* its Exit, and the shutdown has returned only with the ticker and all
\* workers terminated.
C24_ShutdownDrains ==
    /\ pool.drop # "none" =>
           \A i \in PoolWorkers :
               \/ pool.worker[i] = "exited"
               \/ \E k \in 1..Len(pool.queue[i]) : pool.queue[i][k] = "Exit"
    /\ \A i \in PoolWorkers :
           pool.worker[i] = "exited" => pool.skipped[i] = 0
    /\ pool.drop = "returned" =>
           /\ pool.ticker = "exited"
           /\ \A i \in PoolWorkers : pool.worker[i] = "exited"

\* the first and the last part of C24 alone
C24_ExitSentAndJoined ==
    /\ pool.drop # "none" =>
           \A i \in PoolWorkers :
               \/ pool.worker[i] = "exited"
               \/ \E k \in 1..Len(pool.queue[i]) : pool.queue[i][k] = "Exit"
    /\ pool.drop = "returned" =>
           /\ pool.ticker = "exited"
           /\ \A i \in PoolWorkers : pool.worker[i] = "exited"

\* C25: a sender's consecutive messages go to consecutive workers in cyclic
\* order: after worker i the next message goes to worker i + 1, and after
\* the last worker to the first, whatever the pool size and the cursor.
C25_RoundRobin ==
    [][\A s \in Senders :
           (pool.sent[s] > 0 /\ pool'.sent[s] = pool.sent[s] + 1) =>
               pool'.last[s] = (pool.last[s] % pool.T) + 1]_vars

\* the same away from the wrap of the cursor
C25_RoundRobinBelowWrap ==
    [][\A s \in Senders :
           (/\ pool.sent[s] > 0 /\ pool'.sent[s] = pool.sent[s] + 1
            /\ pool.cursor[s] + 1 < CursorMod) =>
               pool'.last[s] = (pool.last[s] % pool.T) + 1]_vars

\* the DHTChange messages a queue holds
RECURSIVE Changes(_)
Changes(q) ==
    IF q = << >> THEN 0
    ELSE (IF Head(q) = "DHTChange" THEN 1 ELSE 0) + Changes(Tail(q))

RECURSIVE ChangesPending(_)
ChangesPending(i) ==
    IF i = 0 THEN 0
    ELSE Changes(pool.queue[i])
         + (IF pool.current[i] = "DHTChange" THEN 1 ELSE 0)
         + ChangesPending(i - 1)

\* C26: every notification of the DHT is answered by one run of the
\* DHT-change handler: the notifications are the runs made plus the runs
\* still to be made by a worker, never more and never fewer, and every run
\* has reconciled every vnode once.
C26_OneRunPerNotification ==
    /\ pool.notified = pool.executed + ChangesPending(pool.T)
    /\ \A v \in VNodes : pool.reconciled[v] = pool.executed

\* no run without a notification, and one reconciliation of every vnode
\* for every run
C26_NoRunWithoutNotification ==
    /\ pool.executed + ChangesPending(pool.T) <= pool.notified
    /\ \A v \in VNodes : pool.reconciled[v] = pool.executed

\* the notifications that no run answers are those of workers that ended
\* with messages ahead of their Exit, or that are held up in the drop
C26_LossOnlyAtShutdown ==
    (\A i \in PoolWorkers :
         pool.skipped[i] = 0 /\ pool.worker[i] # "dropping") =>
        pool.notified = pool.executed + ChangesPending(pool.T)

(***************************************************************************)
(* discard, strip and fill applied to a container with one argument and    *)
(* with two arguments in both orders.                                      *)
(***************************************************************************)
\* the containers of these checks: any dots up to MaxVersion, a dot's value
\* told by its version, and any version vector
OpInputs ==
    {d \in DccInputs :
        \A dot \in DOMAIN d.dots :
            d.dots[dot] = (IF dot[2] = 1 THEN "a" ELSE "b")}

\* the version vectors given to discard, held as containers without dots
VvArgs == {d \in DccInputs : d.dots = DotsNew}

\* the clocks given to strip and fill: a base for any of the actors
BaseArgs == {b \in BvvInputs : \A i \in DOMAIN b : b[i].bitmap = 0}

InitOps ==
    /\ dx \in OpInputs
    /\ dres = NoRes
    /\ bres = NoBres
    /\ cmd = NoCmd
    /\ NoSys
    /\ \/ dy \in VvArgs /\ dz \in VvArgs /\ ba = BvvNew /\ bb = BvvNew
       \/ dy = DccNew /\ dz = DccNew /\ ba \in BaseArgs /\ bb \in BaseArgs
    /\ DbIdle

OpsFrame ==
    /\ UNCHANGED <<dx, dy, dz, ba, bb, bres, cmd, locks, pool, chan>>
    /\ UNCHANGED dbVars

\* d.discard(a); d.discard(b), the other order, and d.discard(a) alone
ApplyDiscard ==
    /\ dres.op = "none"
    /\ dres' = [op |-> "discard",
                r0 |-> DccDiscard(dx, dy.vv),
                r1 |-> DccDiscard(DccDiscard(dx, dy.vv), dz.vv),
                r2 |-> DccDiscard(DccDiscard(dx, dz.vv), dy.vv)]
    /\ OpsFrame

\* d.strip(a); d.strip(b), the other order, and d.strip(a) alone
ApplyStrip ==
    /\ dres.op = "none"
    /\ dres' = [op |-> "strip",
                r0 |-> DccStrip(dx, ba),
                r1 |-> DccStrip(DccStrip(dx, ba), bb),
                r2 |-> DccStrip(DccStrip(dx, bb), ba)]
    /\ OpsFrame

\* d.fill(a); d.fill(b), the other order, and d.fill(a) alone
ApplyFill ==
    /\ dres.op = "none"
    /\ dres' = [op |-> "fill",
                r0 |-> DccFill(dx, ba),
                r1 |-> DccFill(DccFill(dx, ba), bb),
                r2 |-> DccFill(DccFill(dx, bb), ba)]
    /\ OpsFrame

NextOps == ApplyDiscard \/ ApplyStrip \/ ApplyFill

SpecOps == InitOps /\ [][NextOps]_vars

\* C27: d.discard(vv) leaves exactly the dots of d whose version is above
\* the entry of vv for their actor (no entry reads as 0), each with the
\* value it had, and a version vector that is for every actor the larger of
\* d's entry and vv's entry; with an empty vv the container is unchanged.
C27_Discard ==
    dres.op = "discard" =>
        /\ DOMAIN dres.r0.dots =
               {dot \in DOMAIN dx.dots : ~(dot[2] <= VvGet(dy.vv, dot[1]))}
        /\ \A dot \in DOMAIN dres.r0.dots : dres.r0.dots[dot] = dx.dots[dot]
        /\ DOMAIN dres.r0.vv = DOMAIN dx.vv \cup DOMAIN dy.vv
        /\ \A i \in Ids :
               /\ VvGet(dres.r0.vv, i) >= VvGet(dx.vv, i)
               /\ VvGet(dres.r0.vv, i) >= VvGet(dy.vv, i)
               /\ VvGet(dres.r0.vv, i) \in {VvGet(dx.vv, i), VvGet(dy.vv, i)}
        /\ dy.vv = VvNew => dres.r0 = dx

\* a discard that removes a dot at the version of vv, keeps a dot above it
\* and raises an entry of the version vector
C27_Witness ==
    /\ dres.op = "discard"
    /\ \E dot \in DOMAIN dx.dots :
           dot[2] = VvGet(dy.vv, dot[1]) /\ dot \notin DOMAIN dres.r0.dots
    /\ \E dot \in DOMAIN dres.r0.dots : dot[1] \in DOMAIN dy.vv
    /\ \E i \in DOMAIN dx.vv : dres.r0.vv[i] > dx.vv[i]

\* C28: discard, strip and fill give the same container whichever of two
\* arguments comes first, and the same container with an argument twice as
\* with it once.
C28_OrderAndRepeat ==
    dres.op \in {"discard", "strip", "fill"} =>
        /\ dres.r1 = dres.r2
        /\ (IF dres.op = "discard" THEN dy = dz ELSE ba = bb) =>
               dres.r1 = dres.r0

\* two arguments that each change the container, and change what the other
\* left
C28_Witness ==
    /\ dres.op = "strip"
    /\ dres.r0 # dx
    /\ dres.r1 # dres.r0
    /\ dres.r1 # DccStrip(dx, bb)

(***************************************************************************)
(* The containers the SET coordinator stores (under SpecDel).              *)
(***************************************************************************)
\* node n coordinates a SET or DEL in this step
Coordinates(n) == Len(log'[n]) = Len(log[n]) + 1

\* the container of that step before strip: the stored one with the
\* context discarded and the new dot added
BeforeStrip(n) ==
    LET r == reqs'[Len(reqs')]
        version == log'[n][Len(log'[n])][2]
        discarded == DccDiscard(Load(n, r.key), r.ctx)
    IN  IF r.value = NoValue THEN discarded
        ELSE DccAdd(discarded, n, version, r.value)

\* the container that step stored
Stored(n) == storage'[n][reqs'[Len(reqs')].key]

\* C29: a container the SET coordinator stores has every dot above the base
\* the vnode's clocks have for the dot's actor, and filled with the clocks
\* it has the version vector it had before strip.
C29_StoredDotsAboveBase ==
    [][\A n \in Nodes : Coordinates(n) =>
           /\ DotsAbove(Stored(n), clocks'[n])
           /\ DccFill(Stored(n), clocks'[n]).vv = BeforeStrip(n).vv]_vars

\* C29, amended: a container the SET coordinator stores has every entry of
\* its version vector above the base the vnode's clocks have for the
\* entry's actor, and its dots are those it had before strip; filled with
\* the clocks it has, for every actor, the larger of the entry it had before
\* strip and the base of the clocks.
C29_StoredEntriesAboveBase ==
    [][\A n \in Nodes : Coordinates(n) =>
           LET stored == Stored(n)
               before == BeforeStrip(n)
               filled == DccFill(stored, clocks'[n])
           IN  /\ \A i \in DOMAIN stored.vv :
                      stored.vv[i] > BvvBase(clocks'[n], i)
               /\ stored.dots = before.dots
               /\ \A i \in Nodes :
                      VvGet(filled.vv, i) =
                          Max(VvGet(before.vv, i), BvvBase(clocks'[n], i))]_vars

\* a coordinator stored a container whose new dot is at the base of the
\* clocks and whose version vector strip emptied, at a node whose clocks
\* know the other node's writes
C29_Witness ==
    \E n \in Nodes : \E k \in DOMAIN storage[n] :
        /\ log[n] # << >>
        /\ log[n][Len(log[n])] \in DOMAIN storage[n][k].dots
        /\ log[n][Len(log[n])][2] = BvvBase(clocks[n], n)
        /\ storage[n][k].vv = VvNew
        /\ \E m \in Nodes \ {n} : BvvBase(clocks[n], m) > 0

(***************************************************************************)
(* The dots the SET coordinator assigns, over SETs, replica updates and a  *)
(* save and reopen of a node, clean or dirty.                              *)
(***************************************************************************)
MaxDotOps == 3

\* the clients write, a node saves and reopens, the clients write
NextDots ==
    \/ \E n \in Nodes, k \in Keys : \E ctx \in Contexts(k) :
           Len(reqs) < MaxDotOps /\ DatabaseSet(n, k, ctx)
    \/ \E p \in NodePairs : HandlerSetRemote(p[1], p[2])
    \/ \E p \in NodePairs : HandlerSetRemoteAck(p[1], p[2])
    \/ \E n \in Nodes, shutdown \in BOOLEAN : Reload(n, shutdown)

SpecDots == InitReload /\ [][NextDots]_vars

\* the dots node n has assigned: its log, which no step here truncates
Assigned(n) == {log[n][i] : i \in 1..Len(log[n])}

Grows(old, new) == \A i \in Ids : BvvValues(old, i) \subseteq BvvValues(new, i)

\* new is old with the one event that event(id) returns, which old did not
\* hold, and nothing else
AddsReturned(old, new, id) ==
    LET version == BvvEventVersion(old, id)
    IN  /\ version \notin BvvValues(old, id)
        /\ BvvValues(new, id) = BvvValues(old, id) \cup {version}
        /\ \A i \in Ids \ {id} : BvvValues(new, i) = BvvValues(old, i)

\* the actor whose entry differs between old and new
Changed(old, new) ==
    {i \in Ids : i \in DOMAIN new /\ (i \notin DOMAIN old \/ old[i] # new[i])}

\* C31: a step of add, event or merge keeps every event the clock held, and
\* a step of event adds exactly the event it returns, which the clock did
\* not hold.
C31_OnlyGrows ==
    [][/\ bres'.op \in {"add", "event", "merge"} =>
              Grows(ba, ba') /\ Grows(bb, bb')
       /\ (bres'.op = "event" /\ <<ba, bb>>' # <<ba, bb>>) =>
              /\ \A id \in Changed(ba, ba') : AddsReturned(ba, ba', id)
              /\ \A id \in Changed(bb, bb') : AddsReturned(bb, bb', id)]_vars

\* event was applied to an actor without entry or with an empty bitmap
DenseBefore(old, new) ==
    \A id \in Changed(old, new) : id \in DOMAIN old => old[id].bitmap = 0

\* C31, amended: a step of add or merge keeps every event the clock held; a
\* step of event on an actor that has no entry or an empty bitmap keeps
\* them too and adds exactly the event it returns, which the clock did not
\* hold.
C31_OnlyGrowsFromDense ==
    [][/\ bres'.op \in {"add", "merge"} => Grows(ba, ba') /\ Grows(bb, bb')
       /\ (/\ bres'.op = "event" /\ <<ba, bb>>' # <<ba, bb>>
           /\ DenseBefore(ba, ba') /\ DenseBefore(bb, bb')) =>
              /\ Grows(ba, ba') /\ Grows(bb, bb')
              /\ \A id \in Changed(ba, ba') : AddsReturned(ba, ba', id)
              /\ \A id \in Changed(bb, bb') : AddsReturned(bb, bb', id)]_vars

\* an event on a dense actor of a clock whose other actor has a gap, after
\* earlier events
C31_Witness ==
    /\ bres.op = "event"
    /\ \E i \in DOMAIN bres.r1 : bres.r1[i].bitmap = 0 /\ bres.r1[i].base >= 2
    /\ \E i \in DOMAIN bres.r1 : bres.r1[i].bitmap # 0

\* the actor has no entry or an empty bitmap
Dense(bvv, id) == id \in DOMAIN bvv => bvv[id].bitmap = 0

\* event(id) on old gave new: the version returned is one above the base
\* (1 without entry), the entry is left as that version with an empty
\* bitmap, and the next event(id) returns the version after it
ConsecutiveEvent(old, new, id) ==
    LET version == BvvEventVersion(old, id)
    IN  /\ version = BvvBase(old, id) + 1
        /\ new[id] = BitmappedVersionNew(version, 0)
        /\ BvvEventVersion(new, id) = version + 1

\* C32: event(id) on an actor without entry or with an empty bitmap returns
\* base + 1 (1 on a new actor) and leaves the entry as (returned version,
\* empty bitmap), so that successive calls return consecutive versions.
C32_EventsConsecutive ==
    [][(bres'.op = "event" /\ <<ba, bb>>' # <<ba, bb>>) =>
           /\ \A id \in Changed(ba, ba') :
                  Dense(ba, id) => ConsecutiveEvent(ba, ba', id)
           /\ \A id \in Changed(bb, bb') :
                  Dense(bb, id) => ConsecutiveEvent(bb, bb', id)]_vars

\* the events of one actor have been counted up to MaxEvent on a clock
\* that holds no other actor
C32_Witness ==
    /\ bres.op = "event"
    /\ \E i \in Ids :
           /\ DOMAIN bres.r1 = {i}
           /\ bres.r1[i] = BitmappedVersionNew(MaxEvent, 0)

(***************************************************************************)
(* Versions added to the actors of one clock, in any order and with        *)
(* repetitions; the versions added to each actor are remembered.           *)
(***************************************************************************)
\* the versions added: up to one beyond the reach of the bit index
MaxAdd == IndexMod + 1

InitAdd ==
    /\ dx = DccNew /\ dy = DccNew /\ dz = DccNew
    /\ dres = NoRes
    /\ ba = BvvNew /\ bb = BvvNew
    /\ bres = [op |-> "adds", r1 |-> BvvNew, r2 |-> BvvNew,
               added |-> [i \in Ids |-> {}]]
    /\ cmd = NoCmd
    /\ NoSys
    /\ DbIdle

\* a.add(id, version)
AddVersion ==
    \E id \in Ids, version \in 1..MaxAdd :
        /\ ba' = BvvAdd(ba, id, version)
        /\ bres' = [bres EXCEPT !.r1 = ba', !.r2 = ba',
                                !.added[id] = @ \cup {version}]
        /\ UNCHANGED <<dccVars, bb, cmd, locks, pool, chan>>
        /\ UNCHANGED dbVars

NextAdd == AddVersion

SpecAdd == InitAdd /\ [][NextAdd]_vars

\* bv is the one (base, bitmap) that stands for the set S: the base is the
\* end of the dense prefix of S and the bitmap has a bit for every other
\* version of S and no other bit
StandsFor(bv, S) ==
    /\ \A v \in 1..bv.base : v \in S
    /\ bv.base + 1 \notin S
    /\ \A v \in (bv.base + 1)..(MaxAdd + 1) :
           Bit(bv.bitmap, v - bv.base - 1) <=> v \in S
    /\ bv.bitmap < Pow2(MaxAdd + 1)

\* C33: whatever the order and the repetitions in which the versions of a
\* set S were added to an actor of an empty clock, the entry is the one
\* (base, bitmap) that stands for S and holds exactly S; with S = 1..n it is
\* (n, 0).
C33_AddOrderFree ==
    bres.op = "adds" =>
        \A id \in Ids :
            /\ id \in DOMAIN ba <=> bres.added[id] # {}
            /\ id \in DOMAIN ba =>
                   /\ StandsFor(ba[id], bres.added[id])
                   /\ BvValues(ba[id]) = bres.added[id]
                   /\ \A n \in 1..MaxAdd :
                          bres.added[id] = 1..n =>
                              ba[id] = BitmappedVersionNew(n, 0)

\* the same for versions whose distance from the base the bit index holds
C33_AddOrderFreeInReach ==
    (/\ bres.op = "adds"
     /\ \A id \in Ids : bres.added[id] \subseteq 1..IndexMod) =>
        \A id \in Ids :
            /\ id \in DOMAIN ba <=> bres.added[id] # {}
            /\ id \in DOMAIN ba =>
                   /\ StandsFor(ba[id], bres.added[id])
                   /\ BvValues(ba[id]) = bres.added[id]

(***************************************************************************)
(* Teardown of the Database and its pool: the threads of SpecPool, each    *)
(* scheduled again and again while it can take a step.                     *)
(***************************************************************************)
SpecPoolFair ==
    /\ SpecPool
    /\ WF_vars(TickerRound) /\ WF_vars(JoinTicker) /\ WF_vars(JoinWorkers)
    /\ \A i \in 1..MaxWorkers : WF_vars(i \in PoolWorkers /\ WorkerRecv(i))
    /\ \A i \in 1..MaxWorkers : WF_vars(i \in PoolWorkers /\ WorkerDone(i))

\* C34: once the last reference to the Database is dropped, the teardown
\* comes to its end with the ticker and every worker exited and joined,
\* whichever thread dropped the last reference.
C34_TeardownTerminates ==
    (pool.drop # "none") ~>
        (/\ pool.drop = "returned"
         /\ pool.ticker = "exited"
         /\ \A i \in PoolWorkers : pool.worker[i] = "exited")

\* the same for a last reference dropped by the owner
C34_OwnerTeardownTerminates ==
    (pool.drop # "none" /\ pool.dropper = 0) ~>
        (/\ pool.drop = "returned"
         /\ pool.ticker = "exited"
         /\ \A i \in PoolWorkers : pool.worker[i] = "exited")

(***************************************************************************)
(* The order of the vnode mutexes (under SpecLock).                        *)
(***************************************************************************)
\* the vnodes whose mutex thread t holds
Held(t) == {v \in VNodes : locks.mutex[v] = t}

\* C35: a thread holds the mutex of at most one vnode, and while it waits
\* for one it holds none, so every thread that waits for a mutex waits for a
\* thread that is inside a vnode and will release it; the write lock of the
\* vnodes map is taken by no handler, only by the drop of the Database.
C35_OneMutexAtATime ==
    /\ \A t \in Threads :
           /\ Cardinality(Held(t)) <= 1
           /\ locks.pc[t].at = "lock" => Held(t) = {}
           /\ locks.pc[t].at = "lock" =>
                  LET owner == locks.mutex[locks.pc[t].v]
                  IN  owner # 0 => locks.pc[owner].at = "vnode"
    /\ locks.writer # "none" =>
           /\ locks.state = "dropped"
           /\ locks.readers = {}
           /\ \A t \in Threads : locks.pc[t].at = "idle"

\* a save that has released the first vnode is inside the second while a
\* counter of inflight migrations is inside the first and the worker waits
C35_Witness ==
    /\ \E t \in Threads :
           /\ locks.pc[t].op = "save" /\ locks.pc[t].at = "vnode"
           /\ locks.pc[t].v = 2
    /\ \E t \in Threads :
           /\ locks.pc[t].op = "migrations_inflight"
           /\ locks.pc[t].at = "vnode" /\ locks.pc[t].v = 1
    /\ locks.pc[1].at = "lock"

(***************************************************************************)
(* SignaledChan (extra_futures.rs): a stream wrapped so that its consumer  *)
(* is told when it was drained.  The wrapped stream is any stream: each    *)
(* poll of it yields an item, not-ready, its end or an error.              *)
(***************************************************************************)
\* the polls of one run
MaxPolls == 5
Items == {"a", "b"}

\* what a poll of the wrapped stream can return
InnerResults ==
    [r : {"item"}, t : Items] \cup [r : {"notready", "end", "err"}, t : {"-"}]

\* the drained signal, Ok(Async::Ready(Some(None)))
Signal == [r |-> "signal", t |-> "-"]

\* a plausible slip: the flag is not cleared when the signal is given
SignaledPollKeepsFlag(delivered, inner) ==
    CASE inner.r = "item" -> [delivered |-> TRUE, result |-> inner]
      [] inner.r = "notready" ->
            IF delivered THEN [delivered |-> TRUE, result |-> Signal]
            ELSE [delivered |-> FALSE, result |-> inner]
      [] OTHER -> [delivered |-> delivered, result |-> inner]

\* SignaledChan::poll on the result of self.inner.poll(): the flag after the
\* poll and what the consumer is given
SignaledPoll(delivered, inner) ==
    CASE inner.r = "item" -> [delivered |-> TRUE, result |-> inner]
      [] inner.r = "notready" ->
            IF delivered THEN [delivered |-> FALSE, result |-> Signal]
            ELSE [delivered |-> FALSE, result |-> inner]
      [] OTHER -> [delivered |-> delivered, result |-> inner]

\* SignaledChan::new
InitChan ==
    /\ dx = DccNew /\ dy = DccNew /\ dz = DccNew
    /\ dres = NoRes
    /\ ba = BvvNew /\ bb = BvvNew
    /\ bres = NoBres
    /\ cmd = NoCmd
    /\ locks = [state |-> "none"] /\ pool = [state |-> "none"]
    /\ chan = [state |-> "run", delivered |-> FALSE,
               inner |-> << >>, out |-> << >>]
    /\ DbIdle

\* the consumer polls the channel; a stream is not polled after its end
Poll ==
    /\ chan.state = "run"
    /\ Len(chan.out) < MaxPolls
    /\ \E inner \in InnerResults :
           LET p == SignaledPoll(chan.delivered, inner)
           IN  chan' = [state |-> IF inner.r = "end" THEN "ended" ELSE "run",
                        delivered |-> p.delivered,
                        inner |-> Append(chan.inner, inner),
                        out |-> Append(chan.out, p.result)]
    /\ UNCHANGED <<dccVars, bvvVars, cmd, locks, pool>>
    /\ UNCHANGED dbVars

NextChan == Poll

SpecChan == InitChan /\ [][NextChan]_vars

\* the items among a sequence of results, in their order
ItemsOf(rs) ==
    LET isItem(x) == x.r = "item"
    IN  SelectSeq(rs, isItem)

\* at poll i an item was given since the last signal before i
ItemSinceSignal(i) ==
    \E j \in 1..(i - 1) :
        /\ chan.out[j].r = "item"
        /\ \A k \in (j + 1)..(i - 1) : chan.out[k] # Signal

\* C36: the consumer is given every item of the wrapped stream, in order; a
\* poll gives the signal exactly when the wrapped stream is not ready and an
\* item was given since the previous signal, so two signals always have an
\* item between them and no signal comes before the first item.
C36_ItemsAndSignals ==
    chan.state # "none" =>
        /\ Len(chan.out) = Len(chan.inner)
        /\ ItemsOf(chan.out) = ItemsOf(chan.inner)
        /\ \A i \in 1..Len(chan.out) :
               /\ chan.out[i] = Signal <=>
                      chan.inner[i].r = "notready" /\ ItemSinceSignal(i)
               /\ chan.out[i] = Signal =>
                      \E j \in 1..(i - 1) :
                          /\ chan.out[j].r = "item"
                          /\ \A k \in (j + 1)..(i - 1) : chan.out[k].r # "signal"
        /\ \A i, j \in 1..Len(chan.out) :
               (i < j /\ chan.out[i] = Signal /\ chan.out[j] = Signal) =>
                   \E k \in (i + 1)..(j - 1) : chan.out[k].r = "item"

\* two runs of items, each closed by its signal, and a quiet poll after them
C36_Witness ==
    /\ chan.state = "run"
    /\ Len(chan.out) = 5
    /\ chan.out[1].r = "item" /\ chan.out[2] = Signal
    /\ chan.out[3].r = "item" /\ chan.out[4] = Signal
    /\ chan.out[5].r = "notready"

\* results i..j-1 are a run of items and result j is not an item
RunThenOther(i, j) ==
    /\ i < j
    /\ \A k \in i..(j - 1) : chan.out[k].r = "item"
    /\ chan.out[j].r # "item"

\* C37: after a run of items the next result that is not an item is the
\* drained signal, also when the wrapped stream ends right after the items.
C37_RunThenSignal ==
    chan.state # "none" =>
        \A i, j \in 1..Len(chan.out) :
            RunThenOther(i, j) => chan.out[j] = Signal

\* what does hold: after a run of items the consumer is never told "not
\* ready" before the signal; the end of the wrapped stream and its errors
\* are passed on as they are, without a signal
C37_RunThenSignalOrEndOrError ==
    chan.state # "none" =>
        \A i, j \in 1..Len(chan.out) :
            RunThenOther(i, j) => chan.out[j].r \in {"signal", "end", "err"}

\* the wrapped stream ended right after an item
C37_Witness ==
    /\ chan.state = "ended"
    /\ Len(chan.out) = 2
    /\ chan.out[1].r = "item" /\ chan.out[2].r = "end"

====
